---- MODULE Spec2Model ----
(***************************************************************************)
(* Model of the emvscode-web extension: the change tracker                 *)
(* (onDidChangeTextDocument / onDidDeleteFiles), the sync engine of        *)
(* autoCommit.ts (ensureBranchExists, commitChanges, commitDeletions,      *)
(* commitActiveFile) and the git host it talks to.                         *)
(*                                                                         *)
(* Every `await` of the source is a step boundary: one action handles the  *)
(* response of the awaited request and runs the synchronous code up to the *)
(* next await.  The git host applies a request at the moment its response  *)
(* is handled.                                                             *)
(***************************************************************************)
EXTENDS Integers, Sequences, FiniteSets, TLC

\* ------------------------------------------------------------- bounds
\* A behaviour follows one of four load profiles: the commands one after
\* the other (commitChanges runs and notifications), a command next to a
\* format / lint run (commitChanges and commitActiveFile side by side),
\* commands started while an earlier one is still running, or a command in
\* a workspace that has a folder and whose branch may hold a symbolic link.
MaxEdits == 2       \* files edit / delete notifications report, commands alone
MaxCycles == 2      \* commitChanges runs, commands alone
MaxFormats == 1     \* commitActiveFile runs, next to a command
SideEdits == 1      \* files edit / delete notifications report, next to a format run
SideCycles == 1     \* commitChanges runs, next to a format run
MaxRuns == 2        \* commitChanges runs in progress at once
MaxExternal == 1    \* commits pushed to the branch by another client
MaxFailures == 1    \* requests the network or the host fails
MaxJobs == 2        \* commands that get past the busy check
MaxPolls == 3       \* status polls sent, one command
MaxTimers == 3      \* setInterval calls, one command
SidePolls == 2      \* status polls sent, several commands
SideTimers == 2     \* setInterval calls, several commands
MaxStops == 1       \* stop-command invocations
MaxPollFailures == 1 \* requests to the job server that fail
MaxTokenless == 1   \* commands invoked without an OAuth token
MaxDiagCalls == 2   \* calls of setDiagnostics and lint passes
MaxErrors == 2      \* entries of an error list
MaxPercent == 100   \* largest progressPercent handed to calculateProgressDiff
MaxSnapshots == 3   \* answers the progress renderer handles
MaxFolders == 1     \* folders of the workspace a delete notification reports

\* load profiles of the job client: one command polled at length, or
\* several commands polled briefly
JobProfiles ==
  {[jobs |-> 1, polls |-> MaxPolls, timers |-> MaxTimers],
   [jobs |-> MaxJobs, polls |-> SidePolls, timers |-> SideTimers]}

Profiles ==
  {[edits |-> MaxEdits, cycles |-> MaxCycles, formats |-> 0, runs |-> 1,
    pushes |-> 0, fails |-> MaxFailures, dirs |-> 0],
   [edits |-> SideEdits, cycles |-> SideCycles, formats |-> MaxFormats,
    runs |-> 1, pushes |-> MaxExternal, fails |-> MaxFailures, dirs |-> 0],
   [edits |-> SideEdits, cycles |-> MaxCycles, formats |-> 0,
    runs |-> MaxRuns, pushes |-> 0, fails |-> MaxFailures, dirs |-> 0],
   [edits |-> SideEdits, cycles |-> SideCycles, formats |-> 0,
    runs |-> 1, pushes |-> 0, fails |-> MaxFailures, dirs |-> MaxFolders]}

\* ------------------------------------------------------- paths, content
None == "none"
Text == {"A", "B"}                   \* document texts (document.getText())
Bytes == {"A", "B", "bomA"}          \* blob contents on the git host
Symlink == "link"                    \* a tree entry that is a symbolic link
Folder == "folder"                   \* a folder of the workspace

\* TextDecoder('utf-8').decode(base64ToArrayBuffer(content)): the decoder
\* drops a leading byte order mark.
Decode(bytes) == IF bytes = "bomA" THEN "A" ELSE bytes

\* let content = ''; let file_sha = ''
Empty == ""

\* createBlob({content: documentText}): the text is stored as UTF-8.
Encode(text) == text

\* A path is the sequence of its characters.
owner == <<"o">>
repo == <<"r">>
\* uri.path.match(/^((\/[^/]+){2})/)[0]: /o/r
repositoryPath == <<"/">> \o owner \o <<"/">> \o repo
activeFile == repositoryPath \o <<"/", "a", ".", "m", "i", "z">>
\* const iniFilePath = repositoryPath + '/mml.ini'
iniFilePath == repositoryPath \o <<"/", "m", "m", "l", ".", "i", "n", "i">>
foreignFile == <<"/", "x", "/", "y", "/", "c", ".", "m", "i", "z">>
\* a folder of the workspace, and the file the branch holds in it
dirPath == repositoryPath \o <<"/", "d">>
childPath == <<"d", "/", "c", ".", "m", "i", "z">>

WorkspacePaths == {activeFile, iniFilePath}
AbsPaths == WorkspacePaths \cup {foreignFile}

\* String.prototype.indexOf: the first position sub occurs at in p, 0 for -1
IndexOf(p, sub) ==
  LET hits == {i \in 1..Len(p) :
                 /\ i + Len(sub) - 1 <= Len(p)
                 /\ SubSeq(p, i, i + Len(sub) - 1) = sub}
  IN  IF hits = {} THEN 0
      ELSE CHOOSE i \in hits : \A k \in hits : i <= k

\* changedFilePath.includes(repositoryPath)
Includes(p, sub) == IndexOf(p, sub) # 0

\* const repo = repositoryPath.split('/', 3)[2]
\* changedFilePath.substring(changedFilePath.indexOf(`${repo}/`))
\*                .replace(`${repo}/`, '')
\* substring(-1) is the whole string, and replace removes the first
\* occurrence, which the substring then starts with
RepoFilePath(p) ==
  LET prefix == repo \o <<"/">>
      at == IndexOf(p, prefix)
  IN  IF at = 0 THEN p
      ELSE SubSeq(p, at + Len(prefix), Len(p))

\* the paths a tree of the branch holds a blob at, in the order the host
\* lists them
TreeOrder == <<RepoFilePath(activeFile), childPath, RepoFilePath(iniFilePath)>>
RelPaths == {TreeOrder[i] : i \in 1..Len(TreeOrder)}

Contains(list, x) == \E i \in 1..Len(list) : list[i] = x
Range(list) == {list[i] : i \in 1..Len(list)}

\* ------------------------------------------------------------ git host
NoTree == [p \in RelPaths |-> None]
NoCommit == [sha |-> 0, parents |-> <<>>, tree |-> NoTree]
branch == "verifier"
BranchNames == {"main", branch}

\* getDefaultBranch is an async function: the caller that does not await it
\* holds a promise, not the branch name.
PromiseOf(s) == [kind |-> "promise", val |-> s]
getDefaultBranch == PromiseOf("main")

\* `heads/${baseBranch}`: a template literal converts its argument to a string.
TemplateString(v) == IF v.kind = "promise" THEN "[object Promise]" ELSE v.val

\* The base branch ensureBranchExists holds when it reads the ref
\* (const baseBranch = getDefaultBranch(...), not awaited).
baseBranch == getDefaultBranch

\* updateRef is called without `force`: the host accepts fast-forwards only.
ForcedUpdate == TRUE
UpdateRefForce == FALSE

VARIABLES
  local,       \* workspace: the text of each file, Folder for the folder,
               \*   None for what does not exist
  stored,      \* globalState 'changedFilePaths'
  aliased,     \* globalState.get hands out the stored array itself
  remote,      \* BranchNames -> head commit (NoCommit: no such branch)
  nextSha,     \* next fresh commit sha
  budget,      \* the load profile of the behaviour
  failures, edits, extPushes, cycles, formats,
  deleting,    \* onDidDeleteFiles handlers awaiting globalState.update: the
               \*   files of its event each has still to record
  pc, result,  \* per caller: the runs of commitChanges and commitActiveFile
  \* commitChanges locals, per run
  ccList, ccIdx, treeList, deletedFilePaths, ccDoc, ccWhere,
  ccLatest, ccTree, ccCommit,
  ccShared,    \* per run: its changedFilePaths is the stored array itself
  \* commitActiveFile locals
  afDoc, afWhere, afLatest, afBlob, afTree, afCommit,
  \* commitDeletions (detached task of a run) and deleteFile requests in
  \* flight
  delPc, delList, delIdx, delSha, pending,
  \* history of the current cycle of each caller
  hist,
  lastEnded    \* history: what happened last, a run ending or a notification

envVars == <<local, stored, aliased, remote, nextSha, budget,
             failures, edits, extPushes, cycles, formats, deleting>>
ccVars == <<ccList, ccShared, ccIdx, treeList, deletedFilePaths, ccDoc,
            ccWhere, ccLatest, ccTree, ccCommit>>
afVars == <<afDoc, afWhere, afLatest, afBlob, afTree, afCommit>>
delVars == <<delPc, delList, delIdx, delSha, pending>>
syncVars == <<envVars, pc, result, ccVars, afVars, delVars, hist,
              lastEnded>>

\* the job client: extension.ts (commands) and mizarFunctions.ts (polling)
VARIABLES
  isExecuting,    \* extension.ts: let isExecuting
  intervalId,     \* mizarFunctions.ts: the exported timer handle, 0 for null
  uuid,           \* mizarFunctions.ts: id of the job posted last, 0 for ''
  timers,         \* setInterval calls so far; the next handle is timers + 1
  intervals,      \* running intervals: [id, job whose updateProgress it calls]
  timeouts,       \* pending 5 s timeouts, oldest first: the job of each
  inflight,       \* status polls sent and not answered: [n, job, snap]
  polls,          \* status polls sent so far
  server,         \* the job server: state of each job
  serverPercent,  \* the job server: progressPercent of each job
  trackedOf,      \* per mizarVerify call: trackedPhases
  progressOf,     \* per mizarVerify call: numberOfProgress
  jpc,            \* where the command of each job stands
  currentCommand, \* per mizarVerify call: 'makeenv' or 'verifier'
  settled,        \* per mizarVerify call: state of its promise
  diagnostics,    \* diagnosticCollection: the error list attached last
  stops, pollFailures,
  tokenless,      \* commands invoked while Mizar.OAuthToken was empty
  load,           \* the load profile of the behaviour
  jh              \* history of each job, read by the properties only

jobVars == <<isExecuting, intervalId, uuid, timers, intervals, timeouts,
             inflight, polls, server, jpc, currentCommand, settled,
             diagnostics, stops, load, pollFailures, jh, tokenless,
             serverPercent, trackedOf, progressOf>>

\* the progress renderer and the diagnostics reporter
VARIABLES
  diffIn,         \* calculateProgressDiff: its arguments
  diffOut         \* calculateProgressDiff: <<result>>, <<>> before the call

VARIABLES
  trackedPhases,    \* mizarVerify: phases whose label has been written
  numberOfProgress, \* mizarVerify: '#' written for the open phase
  channel,          \* the output channel below the progress header: lines
  seen              \* history of the snapshots rendered, for the properties

diffVars == <<diffIn, diffOut>>
renderVars == <<trackedPhases, numberOfProgress, channel, seen>>

VARIABLES
  diagCollection,   \* diagnosticCollection: document -> list of diagnostics
  linting,          \* lint passes between their clear() and their answer:
                    \*   [n, uri], one per invocation
  diagCalls,        \* setDiagnostics calls and lint passes so far
  lastSet           \* history of the last diagnosticCollection.set

diagVars == <<diagCollection, linting, diagCalls, lastSet>>
viewVars == <<diffVars, renderVars, diagVars>>

vars == <<syncVars, jobVars, viewVars>>

\* commitChanges can be called while an earlier call is running: each call
\* is a run of its own, with its own locals.  commitActiveFile is awaited by
\* the one command that calls it.
Cc(k) == <<"cc", k>>
CcRuns == {Cc(k) : k \in 1..MaxCycles}
Af == <<"af", 1>>
Procs == CcRuns \cup {Af}

\* History kept per cycle, read by the properties only.
NoReq == [blob |-> 0, tree |-> 0, commit |-> 0, ref |-> 0, del |-> 0,
          createRef |-> 0]
NoHist == [req |-> NoReq,          \* mutating requests issued
           failed |-> FALSE,       \* a step of the cycle failed
           start |-> {},           \* change set when the cycle started
           startLen |-> 0,
           recorded |-> {},        \* paths recorded while the cycle ran
           processed |-> {},       \* paths the loop visited
           cmp |-> <<>>,           \* per visited repository path
           allEq |-> TRUE,         \* every visited path equal on the branch
           idem |-> FALSE,         \* started right after a successful run
           drained |-> FALSE,      \*   and nothing was notified since that
                                   \*   run wrote the empty change set
           overlapped |-> FALSE,   \* started while another run was running
           joined |-> FALSE,       \* another run started while it was running
           lateNote |-> FALSE,     \* a notification came while the run
                                   \*   awaited its globalState.update
           sawMissing |-> FALSE,   \* listBranches showed no verifier branch
           ensured |-> "no",       \* how ensureBranchExists ended
           adv |-> 0,              \* times the cycle advanced the branch
           moved |-> NoCommit,     \* commit its ref update moved the branch to
           staleUpdate |-> FALSE,  \* its ref update found the head moved
           notifiedAfter |-> FALSE, \* a notification came after it ended
           notifiedDuring |-> FALSE, \* a notification came while it ran
           raced |-> FALSE,        \* found the branch missing while the other
                                   \* caller was creating it
           fetched |-> [path |-> None, of |-> None, sha |-> None,
                        after |-> 0]]
                                   \* the last getContent of commitDeletions:
                                   \*   the path asked for, the path whose
                                   \*   blob the sha taken from it names

Mutations(r) == r.blob + r.tree + r.commit + r.ref + r.del + r.createRef

\* the trees the default branch can hold at the start: without a folder in
\* the workspace, each workspace file or none of it (one with a byte order
\* mark); with the folder, the file in it or not, and a.miz possibly a
\* symbolic link
InitTrees(dirs) ==
  IF dirs = 0
  THEN {[p \in RelPaths |-> IF p = childPath THEN None ELSE t[p]] :
          t \in [RelPaths -> {None, "A"}]}
         \cup {[p \in RelPaths |->
                  CASE p = RepoFilePath(activeFile) -> "bomA"
                    [] p = childPath -> None
                    [] OTHER -> "A"]}
  ELSE {[p \in RelPaths |->
           CASE p = RepoFilePath(activeFile) -> a
             [] p = childPath -> c
             [] OTHER -> "A"] : a \in {"A", Symlink}, c \in {None, "A"}}

\* ---------------------------------------------------- job client: state
Jobs == 1..MaxJobs

\* the job server's view of a job (the server is not part of the sources:
\* a job moves forward only, and reports a queue depth while it waits)
ServerStates == {"none", "QUEUED", "PREPARING_ENV", "ENV_FAILED",
                 "RUNNING_ANALYSIS", "SUCCEEDED", "FAILED"}
ServerNext(st) ==
  CASE st = "QUEUED" -> {"PREPARING_ENV"}
    [] st = "PREPARING_ENV" -> {"ENV_FAILED", "RUNNING_ANALYSIS"}
    [] st = "RUNNING_ANALYSIS" -> {"SUCCEEDED", "FAILED"}
    [] OTHER -> {}

\* the progressPercent the server reports while the analysis runs, in the
\* order it reaches them; a finished analysis reports FinalPercent
RunningPercents == <<30, 60>>
FinalPercent == 100

\* the JSON a status poll is answered with
Snapshot(st, percent) ==
  [queueNum |-> IF st = "QUEUED" THEN 1 ELSE 0,
   progressPhases |-> IF st \in {"RUNNING_ANALYSIS", "SUCCEEDED", "FAILED"}
                      THEN <<"Parser">> ELSE <<>>,
   progressPercent |-> percent,
   numOfErrors |-> IF st = "FAILED" THEN 2 ELSE 0,
   isMakeenvFinish |-> st \in {"ENV_FAILED", "RUNNING_ANALYSIS",
                                "SUCCEEDED", "FAILED"},
   isMakeenvSuccess |-> st \in {"RUNNING_ANALYSIS", "SUCCEEDED", "FAILED"},
   isVerifierFinish |-> st \in {"SUCCEEDED", "FAILED"},
   isVerifierSuccess |-> st = "SUCCEEDED",
   errorList |-> CASE st = "ENV_FAILED" -> "makeenvErrors"
                   [] st = "FAILED" -> "verifierErrors"
                   [] OTHER -> "noErrors"]

NoJobHist ==
  [lastPoll |-> 0,            \* number of the poll whose answer was handled last
   reordered |-> FALSE,       \* an answer was handled after a later poll's
   enteredRunning |-> FALSE,  \* currentCommand became 'verifier'
   asPreparing |-> FALSE,     \* the makeenv branch ran after that
   rendered |-> FALSE,        \* the progress branch ran
   replaced |-> FALSE,        \* channel.replace ran after that
   attached |-> 0,            \* setDiagnostics calls for the job (2: more
                              \*   than one)
   pollFailed |-> FALSE,      \* a status poll of the job failed
   threw |-> FALSE,           \* an answer handler of the job ended in the
                              \*   RangeError of '#'.repeat
   pollAfterPollFail |-> FALSE, \* a poll was sent after that
   envFailed |-> FALSE,       \* the makeenv-failure branch ran
   envDiag |-> FALSE,         \*   and attached its snapshot's error list
   finished |-> FALSE,        \* the isVerifierFinish branch ran
   finishOk |-> FALSE,        \*   isVerifierSuccess of that snapshot
   finishDiag |-> FALSE,      \*   it attached diagnostics
   lateChange |-> FALSE,      \* output or outcome changed after settling
   queuedSeen |-> FALSE,      \* a snapshot with queueNum > 0 was handled
   pollInGrace |-> FALSE,     \* a poll was sent while a grace timeout of
                              \*   the job was pending
   pollAfterEnvFail |-> FALSE,
   pollAfterFinish |-> FALSE,
   stopped |-> FALSE,         \* stop was invoked while the job was active
   stoppedInGrace |-> FALSE,  \*   during a grace-period wait
   deletes |-> 0,             \* DELETE requests sent for the job
   pollAfterStop |-> FALSE,
   lateAnswer |-> FALSE,      \* an answer arrived after the stop
   actedAfterStop |-> FALSE,  \*   and its handler wrote, attached, settled
                              \*   or started a timer
   acceptedWhileBusy |-> FALSE] \* started while an earlier command was in
                                \*   progress

JobIdle ==
  /\ isExecuting = FALSE /\ intervalId = 0 /\ uuid = 0 /\ timers = 0
  /\ intervals = {} /\ timeouts = <<>> /\ inflight = {} /\ polls = 0
  /\ server = [j \in Jobs |-> "none"]
  /\ serverPercent = [j \in Jobs |-> 0]
  /\ trackedOf = [j \in Jobs |-> <<>>]
  /\ progressOf = [j \in Jobs |-> 0]
  /\ jpc = [j \in Jobs |-> "none"]
  /\ currentCommand = [j \in Jobs |-> "makeenv"]
  /\ settled = [j \in Jobs |-> "pending"]
  /\ diagnostics = None
  /\ stops = 0 /\ pollFailures = 0 /\ tokenless = 0
  /\ load \in JobProfiles
  /\ jh = [j \in Jobs |-> NoJobHist]

SyncInit ==
  /\ budget \in Profiles
  /\ local = [p \in WorkspacePaths \cup {dirPath} |->
                IF p # dirPath THEN "A"
                ELSE IF budget.dirs > 0 THEN Folder ELSE None]
  /\ stored = <<>>
  /\ aliased \in BOOLEAN
  /\ \E t \in InitTrees(budget.dirs), exists \in BOOLEAN :
       LET c == [sha |-> 1, parents |-> <<>>, tree |-> t]
       IN  remote = [b \in BranchNames |->
                       IF b = branch /\ ~exists THEN NoCommit ELSE c]
  /\ nextSha = 2
  /\ failures = 0 /\ edits = 0 /\ extPushes = 0 /\ cycles = 0 /\ formats = 0
  /\ deleting = <<>>
  /\ pc = [s \in Procs |-> "idle"]
  /\ result = [s \in Procs |-> "none"]
  /\ ccList = [s \in CcRuns |-> <<>>]
  /\ ccShared = [s \in CcRuns |-> FALSE]
  /\ ccIdx = [s \in CcRuns |-> 0]
  /\ treeList = [s \in CcRuns |-> <<>>]
  /\ deletedFilePaths = [s \in CcRuns |-> <<>>]
  /\ ccDoc = [s \in CcRuns |-> None]
  /\ ccWhere = [s \in CcRuns |-> "try"]
  /\ ccLatest = [s \in CcRuns |-> NoCommit]
  /\ ccTree = [s \in CcRuns |-> NoTree]
  /\ ccCommit = [s \in CcRuns |-> NoCommit]
  /\ afDoc = None /\ afWhere = "try" /\ afLatest = NoCommit /\ afBlob = None
  /\ afTree = NoTree /\ afCommit = NoCommit
  /\ delPc = [s \in CcRuns |-> "idle"]
  /\ delList = [s \in CcRuns |-> <<>>]
  /\ delIdx = [s \in CcRuns |-> 0]
  /\ delSha = [s \in CcRuns |-> None]
  /\ pending = {}
  /\ hist = [s \in Procs |-> NoHist]
  /\ lastEnded = "none"

\* the sync engine at rest
SyncQuiet ==
  /\ SyncInit
  /\ aliased = FALSE /\ budget.formats = 0 /\ budget.runs = 1
  /\ remote[branch] = NoCommit /\ remote["main"].tree = NoTree

DiffIdle == diffIn = [percent |-> 0, emitted |-> 0] /\ diffOut = <<>>
NoSeen == [count |-> 0,        \* snapshots handled
           k |-> 0,            \* length of the phase list of the last one
           percent |-> 0,      \* progressPercent of the last one
           errs |-> 0,         \* numOfErrors of the last one
           shrunk |-> FALSE,   \* a phase list was shorter than the one before
           closedErrs |-> <<>>, \* [phase, errs]: the last tracked phase and
                               \*   numOfErrors at each call of
                               \*   addMissingHashTags
           threw |-> FALSE,    \* the last handler ended in a RangeError
           finished |-> FALSE] \* an isVerifierFinish snapshot was handled
RenderIdle ==
  /\ trackedPhases = <<>> /\ numberOfProgress = 0 /\ channel = <<>>
  /\ seen = NoSeen
\* the documents diagnostics are attached to
Docs == {"a.miz", "b.miz"}
NoSet == [n |-> 0, by |-> None, uri |-> None, errorList |-> <<>>,
          before |-> <<>>]
DiagIdle ==
  /\ diagCollection = [u \in Docs |-> <<>>]
  /\ linting = {} /\ diagCalls = 0 /\ lastSet = NoSet
ViewIdle == DiffIdle /\ RenderIdle /\ DiagIdle

Init == SyncInit /\ JobIdle /\ load.jobs = 1 /\ ViewIdle


\* vscode.workspace.getConfiguration('Mizar').OAuthToken
Tokens == {"", "token"}

\* part_004 line 58, part_002 line 26, linter.ts line 50: !OAuthToken
TokenAlwaysPresent(token) == FALSE
MissingToken(token) == token = ""

\* --------------------------------------------------------------- helpers
\* A request may fail while the failure budget lasts.
Outcomes == IF failures < budget.fails THEN {"ok", "fail"} ELSE {"ok"}
Spend(o) == failures' = IF o = "ok" THEN failures ELSE failures + 1

\* how the commitChanges run that ended last ended, for the history
EndedAs(self, outcome) ==
  IF self \in CcRuns THEN outcome ELSE lastEnded

Goto(self, label, h) ==
  /\ pc' = [pc EXCEPT ![self] = label]
  /\ hist' = [hist EXCEPT ![self] = h]
  /\ UNCHANGED <<result, lastEnded>>

\* the caller's promise rejects (catch ... throw error)
Rejected(self, h) ==
  /\ pc' = [pc EXCEPT ![self] = "idle"]
  /\ result' = [result EXCEPT ![self] = "rejected"]
  /\ hist' = [hist EXCEPT ![self] = [h EXCEPT !.failed = TRUE]]
  /\ lastEnded' = EndedAs(self, "rejected")

Resolved(self, h) ==
  /\ pc' = [pc EXCEPT ![self] = "idle"]
  /\ result' = [result EXCEPT ![self] = "resolved"]
  /\ hist' = [hist EXCEPT ![self] = h]
  /\ lastEnded' = EndedAs(self, IF h.lateNote THEN "resolved" ELSE "clean")

Bump(h, field) == [h EXCEPT !.req[field] = @ + 1]

\* a run of the caller has started (and may have ended)
Started(self) == pc[self] # "idle" \/ result[self] # "none"

\* -------------------------------------------------------- change tracker
\* if (!changedFilePaths.includes(p)) { changedFilePaths.push(p); update }
AlwaysPush(list, p) == Append(list, p)
recordPath(list, p) == IF Contains(list, p) THEN list ELSE Append(list, p)

Notified(p) ==
  /\ stored' = recordPath(stored, p)
  /\ hist' = [s \in Procs |->
       IF s \in CcRuns /\ Started(s)
       THEN [hist[s] EXCEPT
               !.recorded = IF pc[s] # "idle" /\ ~Contains(stored, p)
                            THEN @ \cup {p} ELSE @,
               !.notifiedAfter = @ \/ pc[s] = "idle",
               !.notifiedDuring = @ \/ pc[s] # "idle",
               !.lateNote = @ \/ pc[s] = "update"]
       ELSE hist[s]]
  /\ lastEnded' = "notified"

\* part_004 lines 169-177
onDidChangeTextDocument ==
  /\ edits < budget.edits
  /\ \E p \in AbsPaths, t \in Text :
       /\ p \in WorkspacePaths => local[p] # t
       /\ local' = IF p \in WorkspacePaths
                   THEN [local EXCEPT ![p] = t] ELSE local
       /\ Notified(p)
  /\ edits' = edits + 1
  /\ UNCHANGED <<budget, deleting, aliased, remote, nextSha, failures, extPushes, cycles,
                 formats, pc, result, ccVars, afVars, delVars>>
  /\ UNCHANGED <<jobVars, viewVars>>

\* event.files of one onDidDeleteFiles event: files and folders of the
\* workspace, each once, in any order
Events ==
  {fs \in UNION {[1..n -> WorkspacePaths \cup {dirPath}] :
                   n \in 1..Cardinality(WorkspacePaths \cup {dirPath})} :
     \A i, k \in 1..Len(fs) : fs[i] = fs[k] => i = k}

\* lines 183-188: the loop passes a file whose path the change set holds
\* without awaiting anything; the files from the first one it has to record
RECURSIVE SkipRecorded(_, _)
SkipRecorded(files, list) ==
  IF files = <<>> \/ ~Contains(list, files[1]) THEN files
  ELSE SkipRecorded(Tail(files), list)

\* part_004 lines 182-192: the event is delivered when its files are gone;
\* the handler records the first file it has to and awaits
\* globalState.update (line 189) with the other files still to come
onDidDeleteFiles ==
  /\ \E fs \in Events :
       /\ edits + Len(fs) <= budget.edits
       /\ \A i \in 1..Len(fs) : local[fs[i]] # None
       /\ local' = [p \in DOMAIN local |->
                      IF Contains(fs, p) THEN None ELSE local[p]]
       /\ edits' = edits + Len(fs)
       /\ LET rest == SkipRecorded(fs, stored)
          IN  IF rest = <<>>
              THEN /\ Notified(fs[Len(fs)])
                   /\ UNCHANGED deleting
              ELSE /\ Notified(rest[1])
                   /\ deleting' = IF Tail(rest) = <<>> THEN deleting
                                  ELSE Append(deleting, Tail(rest))
  /\ UNCHANGED <<budget, aliased, remote, nextSha, failures, extPushes, cycles,
                 formats, pc, result, ccVars, afVars, delVars>>
  /\ UNCHANGED <<jobVars, viewVars>>

\* lines 183-191: the update a handler awaits is answered; it goes on with
\* the next file of its event, reading the change set anew (line 186)
onDidDeleteFiles_resumes ==
  /\ \E i \in 1..Len(deleting) :
       LET rest == SkipRecorded(deleting[i], stored)
           others == SubSeq(deleting, 1, i - 1)
                       \o SubSeq(deleting, i + 1, Len(deleting))
       IN  IF rest = <<>>
           THEN /\ deleting' = others
                /\ UNCHANGED <<stored, hist, lastEnded>>
           ELSE /\ Notified(rest[1])
                /\ deleting' = IF Tail(rest) = <<>> THEN others
                               ELSE Append(others, Tail(rest))
  /\ UNCHANGED <<budget, local, aliased, remote, nextSha, failures, edits,
                 extPushes, cycles, formats, pc, result, ccVars, afVars,
                 delVars>>
  /\ UNCHANGED <<jobVars, viewVars>>

\* ---------------------------------------------------- ensureBranchExists
AfterEnsure(self) == IF self \in CcRuns THEN "loop" ELSE "getBranch"

\* the sha the host returns for git.getRef({ref: `heads/${name}`}); 0: 404
RefSha(name) == IF name \in BranchNames THEN remote[name].sha ELSE 0

\* listBranches settles; branchExists decides what follows
ensureBranchExists_listBranches(self) ==
  /\ pc[self] = "listBranches"
  /\ \E o \in Outcomes :
       /\ Spend(o)
       /\ IF o = "fail"
          THEN Rejected(self, [hist[self] EXCEPT !.ensured = "threw"])
          ELSE IF remote[branch].sha # 0
               THEN Goto(self, AfterEnsure(self),
                         [hist[self] EXCEPT !.ensured = "ok"])
               ELSE LET racers == {s \in Procs \ {self} : pc[s] = "getRef"}
                    IN  /\ pc' = [pc EXCEPT ![self] = "getRef"]
                        /\ hist' = [s \in Procs |->
                              IF s = self
                              THEN [hist[s] EXCEPT !.sawMissing = TRUE,
                                                   !.raced = racers # {}]
                              ELSE IF s \in racers
                              THEN [hist[s] EXCEPT !.raced = TRUE]
                              ELSE hist[s]]
                        /\ UNCHANGED <<result, lastEnded>>
  /\ UNCHANGED <<budget, deleting, local, stored, aliased, remote, nextSha, edits, extPushes,
                 cycles, formats, ccVars, afVars, delVars>>
  /\ UNCHANGED <<jobVars, viewVars>>

\* getRef settles; on success createRef follows (lines 67-72), and whatever
\* either request throws is rethrown (lines 74-76)
ensureBranchExists_getRef(self) ==
  /\ pc[self] = "getRef"
  /\ LET name == TemplateString(baseBranch)
         sha == RefSha(name)
     IN  IF sha = 0 \/ remote[branch].sha # 0
         THEN /\ Rejected(self, [hist[self] EXCEPT !.ensured = "threw"])
              /\ UNCHANGED remote
         ELSE /\ remote' = [remote EXCEPT ![branch] = remote[name]]
              /\ Goto(self, AfterEnsure(self),
                      [Bump(hist[self], "createRef") EXCEPT !.ensured = "ok"])
  /\ UNCHANGED <<budget, deleting, local, stored, aliased, nextSha, failures, edits, extPushes,
                 cycles, formats, ccVars, afVars, delVars>>
  /\ UNCHANGED <<jobVars, viewVars>>

\* ---------------------------------------------------------- commitChanges
\* the array a commitChanges run iterates: the stored array itself while
\* globalState.get handed it out and no update has replaced it, the run's
\* own array otherwise
List(self) == IF ccShared[self] THEN stored ELSE ccList[self]

\* repos.getContent({path, ref}) as the host answers it: the blob or the
\* symbolic link at the path; for a folder the list of what it holds, in
\* path order and without content; 404 when the tree holds nothing there
GetContent(tree, path) ==
  LET Under(p) ==
        /\ Len(p) > Len(path) + 1
        /\ SubSeq(p, 1, Len(path) + 1) = path \o <<"/">>
        /\ tree[p] # None
      under == SelectSeq(TreeOrder, Under)
      Entry(p, content) ==
        [type |-> IF tree[p] = Symlink THEN "symlink" ELSE "file",
         path |-> p, sha |-> tree[p], content |-> content]
      none == [type |-> None, path |-> path, sha |-> Empty,
               content |-> Empty]
  IN  IF path \in DOMAIN tree /\ tree[path] # None
      THEN [status |-> 200, isArray |-> FALSE,
            data |-> Entry(path, tree[path]), list |-> <<>>]
      ELSE IF under # <<>>
      THEN [status |-> 200, isArray |-> TRUE, data |-> none,
            list |-> [i \in 1..Len(under) |-> Entry(under[i], Empty)]]
      ELSE [status |-> 404, isArray |-> FALSE, data |-> none, list |-> <<>>]

\* the status repos.getContent answers with for a path of the branch
Status(existingFile) == existingFile.status

\* autoCommit.ts lines 327-342 (and 138-152): content stays '' unless the
\* answer is a file, or a list with a file in it; `file.content || ''`
ContentOf(existingFile) ==
  LET IsFile(f) == f.type = "file"
      files == SelectSeq(existingFile.list, IsFile)
  IN  IF existingFile.isArray
      THEN IF files = <<>> THEN Empty ELSE Decode(files[1].content)
      ELSE IF existingFile.data.type = "file"
           THEN Decode(existingFile.data.content) ELSE Empty

\* catch (error) { if (error.status === 404) ... }: the file is new
NeverNewFile(status) == FALSE
IsNewFile(status) == status = 404

\* commitDeletions lines 241-250: the entry file_sha is taken from, the
\* last one of a list (forEach overwrites file_sha), the answer itself when
\* it is a file, none otherwise (file_sha stays '')
ShaSource(existingFile) ==
  IF existingFile.isArray
  THEN IF existingFile.list = <<>> THEN [path |-> None, sha |-> Empty]
       ELSE LET f == existingFile.list[Len(existingFile.list)]
            IN  [path |-> f.path, sha |-> f.sha]
  ELSE IF existingFile.data.type = "file"
       THEN [path |-> existingFile.data.path, sha |-> existingFile.data.sha]
       ELSE [path |-> None, sha |-> Empty]
FileSha(existingFile) == ShaSource(existingFile).sha

\* if (content !== documentText)
AlwaysDiffers(content, documentText) == TRUE
ContentDiffers(content, documentText) == content # documentText

\* globalState.update('changedFilePaths', [])
KeptChangeSet == stored
ClearedChangeSet == <<>>

\* line 422: update stores a new, empty array; a run that iterates the array
\* stored until now keeps that array
Cleared ==
  /\ stored' = ClearedChangeSet
  /\ ccList' = [s \in CcRuns |-> IF ccShared[s] THEN stored ELSE ccList[s]]
  /\ ccShared' = [s \in CcRuns |-> FALSE]

\* git.createTree({tree, base_tree}): the base tree with the entries laid
\* over it, a later entry for a path replacing an earlier one
CreateTree(base, entries) ==
  [p \in RelPaths |->
     LET at == {i \in 1..Len(entries) : entries[i].path = p}
     IN  IF at = {} THEN base[p]
         ELSE entries[CHOOSE i \in at : \A j \in at : j <= i].sha]

\* the host moves a ref without `force` only to a descendant of its head
FastForward(head, commit) == Contains(commit.parents, head.sha)
UpdateAccepted(head, commit) == UpdateRefForce \/ FastForward(head, commit)

\* a run slot is free: no commitChanges run, no commitDeletions and no
\* deleteFile request of an earlier run is using it
FreeRun(s) ==
  /\ pc[s] = "idle" /\ delPc[s] = "idle"
  /\ ~\E d \in pending : d.by = s

\* lines 282-302: commitChanges is called; it reads the change set, appends
\* mml.ini and calls ensureBranchExists.  Nothing in commitChanges keeps it
\* from being called while an earlier call, or the commitDeletions an
\* earlier call started, is still running.
commitChanges_start ==
  /\ cycles < budget.cycles
  /\ Cardinality({s \in CcRuns : pc[s] # "idle"}) < budget.runs
  /\ cycles' = cycles + 1
  /\ \E self \in CcRuns :
       /\ FreeRun(self)
       /\ \A k \in 1..(self[2] - 1) : ~FreeRun(Cc(k))
       /\ LET alone == \A s \in CcRuns : pc[s] = "idle"
              h == [NoHist EXCEPT
                      !.start = Range(stored), !.startLen = Len(stored),
                      !.idem = alone /\ lastEnded \in {"clean", "resolved"},
                      !.drained = alone /\ lastEnded = "clean",
                      !.overlapped = ~alone]
          IN  /\ IF Len(stored) > 0
                 THEN /\ stored' = IF aliased THEN Append(stored, iniFilePath)
                                   ELSE stored
                      /\ ccList' = [ccList EXCEPT ![self] =
                                      IF aliased THEN <<>>
                                      ELSE Append(stored, iniFilePath)]
                      /\ ccShared' = [ccShared EXCEPT ![self] = aliased]
                      /\ pc' = [pc EXCEPT ![self] = "listBranches"]
                      /\ result' = [result EXCEPT ![self] = "none"]
                      /\ hist' = [s \in Procs |->
                            IF s = self THEN h
                            ELSE IF s \in CcRuns /\ pc[s] # "idle"
                            THEN [hist[s] EXCEPT !.joined = TRUE]
                            ELSE hist[s]]
                      /\ UNCHANGED lastEnded
                 ELSE /\ Resolved(self, h)
                      /\ ccList' = [ccList EXCEPT ![self] = <<>>]
                      /\ ccShared' = [ccShared EXCEPT ![self] = FALSE]
                      /\ UNCHANGED stored
              /\ ccIdx' = [ccIdx EXCEPT ![self] = 1]
              /\ treeList' = [treeList EXCEPT ![self] = <<>>]
              /\ deletedFilePaths' = [deletedFilePaths EXCEPT ![self] = <<>>]
              /\ ccDoc' = [ccDoc EXCEPT ![self] = None]
              /\ ccWhere' = [ccWhere EXCEPT ![self] = "try"]
              /\ ccLatest' = [ccLatest EXCEPT ![self] = NoCommit]
              /\ ccTree' = [ccTree EXCEPT ![self] = NoTree]
              /\ ccCommit' = [ccCommit EXCEPT ![self] = NoCommit]
  /\ UNCHANGED <<budget, deleting, local, aliased, remote, nextSha, failures, edits, extPushes,
                 formats, afVars, delVars>>
  /\ UNCHANGED <<jobVars, viewVars>>

\* lines 317 and 380-382: vscode.workspace.openTextDocument rejects for a
\* file that does not exist, and for a folder
OpenNeverFails(doc) == FALSE
OpenFails(doc) == doc = None \/ doc = Folder

\* lines 304-317 and 380-389: the head of one loop iteration, up to the next
\* request (getContent for a document that opened, getBranch after the loop)
commitChanges_loop(self) ==
  /\ pc[self] = "loop"
  /\ LET h == hist[self] IN
     IF ccIdx[self] > Len(List(self))
     THEN /\ Goto(self, "getBranch", h)
          /\ UNCHANGED <<ccIdx, deletedFilePaths, ccDoc>>
     ELSE LET p == List(self)[ccIdx[self]]
              hp == [h EXCEPT !.processed = @ \cup {p}]
          IN  IF ~Includes(p, repositoryPath)
              THEN /\ Goto(self, "loop", hp)
                   /\ ccIdx' = [ccIdx EXCEPT ![self] = @ + 1]
                   /\ UNCHANGED <<deletedFilePaths, ccDoc>>
              ELSE IF OpenFails(local[p])
              THEN /\ Goto(self, "loop",
                           [hp EXCEPT !.cmp = Append(@, "gone"),
                                      !.allEq = FALSE])
                   /\ deletedFilePaths' =
                        [deletedFilePaths EXCEPT ![self] =
                           Append(@, RepoFilePath(p))]
                   /\ ccIdx' = [ccIdx EXCEPT ![self] = @ + 1]
                   /\ UNCHANGED ccDoc
              ELSE /\ Goto(self, "getContent", hp)
                   /\ ccDoc' = [ccDoc EXCEPT ![self] = local[p]]
                   /\ UNCHANGED <<ccIdx, deletedFilePaths>>
  /\ UNCHANGED <<envVars, ccList, ccShared, treeList, ccWhere, ccLatest, ccTree,
                 ccCommit, afVars, delVars>>
  /\ UNCHANGED <<jobVars, viewVars>>

\* lines 321-343 and 358-378: getContent settles
commitChanges_getContent(self) ==
  /\ pc[self] = "getContent"
  /\ \E o \in Outcomes :
       /\ Spend(o)
       /\ LET rel == RepoFilePath(List(self)[ccIdx[self]])
              existingFile == GetContent(remote[branch].tree, rel)
              missing == Status(existingFile) = 404
              content == ContentOf(existingFile)
              eq == ~missing /\ content = ccDoc[self]
              h == [hist[self] EXCEPT !.allEq = @ /\ eq]
          IN  IF o = "fail" \/ (missing /\ ~IsNewFile(Status(existingFile)))
              THEN \* a non-404 error: shown, not rethrown (lines 373-377)
                   /\ Goto(self, "loop",
                           [h EXCEPT !.cmp = Append(@, "err"),
                                     !.failed = TRUE])
                   /\ ccIdx' = [ccIdx EXCEPT ![self] = @ + 1]
                   /\ UNCHANGED ccWhere
              ELSE IF missing
              THEN /\ Goto(self, "createBlob",
                           Bump([h EXCEPT !.cmp = Append(@, "404")], "blob"))
                   /\ ccWhere' = [ccWhere EXCEPT ![self] = "catch"]
                   /\ UNCHANGED ccIdx
              ELSE IF ContentDiffers(content, ccDoc[self])
              THEN /\ Goto(self, "createBlob",
                           Bump([h EXCEPT !.cmp =
                                   Append(@, IF eq THEN "eq" ELSE "ne")],
                                "blob"))
                   /\ ccWhere' = [ccWhere EXCEPT ![self] = "try"]
                   /\ UNCHANGED ccIdx
              ELSE /\ Goto(self, "loop",
                           [h EXCEPT !.cmp =
                              Append(@, IF eq THEN "eq" ELSE "ne")])
                   /\ ccIdx' = [ccIdx EXCEPT ![self] = @ + 1]
                   /\ UNCHANGED ccWhere
  /\ UNCHANGED <<budget, deleting, local, stored, aliased, remote, nextSha, edits, extPushes,
                 cycles, formats, ccList, ccShared, treeList, deletedFilePaths,
                 ccDoc, ccLatest, ccTree, ccCommit, afVars, delVars>>
  /\ UNCHANGED <<jobVars, viewVars>>

\* lines 344-356 (in the try block) and 360-372 (in the catch block):
\* createBlob settles
commitChanges_createBlob(self) ==
  /\ pc[self] = "createBlob"
  /\ \E o \in Outcomes, status \in {404, 500} :
       /\ Spend(o)
       /\ LET rel == RepoFilePath(List(self)[ccIdx[self]])
              h == hist[self]
          IN  IF o = "ok"
              THEN /\ treeList' = [treeList EXCEPT ![self] = Append(@,
                        [path |-> rel, sha |-> Encode(ccDoc[self]),
                         why |-> h.cmp[Len(h.cmp)]])]
                   /\ Goto(self, "loop", h)
                   /\ ccIdx' = [ccIdx EXCEPT ![self] = @ + 1]
                   /\ UNCHANGED ccWhere
              ELSE IF ccWhere[self] = "catch"
              THEN /\ Rejected(self, h)
                   /\ UNCHANGED <<treeList, ccIdx, ccWhere>>
              ELSE IF IsNewFile(status)
              THEN /\ Goto(self, "createBlob",
                           [Bump(h, "blob") EXCEPT !.failed = TRUE])
                   /\ ccWhere' = [ccWhere EXCEPT ![self] = "catch"]
                   /\ UNCHANGED <<treeList, ccIdx>>
              ELSE /\ Goto(self, "loop", [h EXCEPT !.failed = TRUE])
                   /\ ccIdx' = [ccIdx EXCEPT ![self] = @ + 1]
                   /\ UNCHANGED <<treeList, ccWhere>>
  /\ UNCHANGED <<budget, deleting, local, stored, aliased, remote, nextSha, edits, extPushes,
                 cycles, formats, ccList, ccShared, deletedFilePaths, ccDoc,
                 ccLatest, ccTree, ccCommit, afVars, delVars>>
  /\ UNCHANGED <<jobVars, viewVars>>

\* lines 391 and 417: commitDeletions is called when no tree entry was
\* collected and a path was collected as deleted
DeletionsWithTree(entries, deleted) == Len(deleted) > 0
StartsDeletions(entries, deleted) == Len(entries) = 0 /\ Len(deleted) > 0

\* lines 387-391 and 417-422: getBranch settles; without tree entries
\* commitDeletions is started (not awaited) when paths were collected as
\* deleted, globalState.update is called with the empty list and awaited
commitChanges_getBranch(self) ==
  /\ pc[self] = "getBranch"
  /\ \E o \in Outcomes :
       /\ Spend(o)
       /\ LET h == hist[self] IN
          IF o = "fail" \/ remote[branch].sha = 0
          THEN /\ Rejected(self, h)
               /\ UNCHANGED <<stored, ccList, ccShared, ccLatest, delPc,
                              delList, delIdx>>
          ELSE /\ ccLatest' = [ccLatest EXCEPT ![self] = remote[branch]]
               /\ IF Len(treeList[self]) > 0
                  THEN /\ Goto(self, "createTree", Bump(h, "tree"))
                       /\ UNCHANGED <<stored, ccList, ccShared>>
                  ELSE /\ Goto(self, "update", h)
                       /\ Cleared
               /\ IF StartsDeletions(treeList[self], deletedFilePaths[self])
                  THEN /\ delPc' = [delPc EXCEPT ![self] = "getContent"]
                       /\ delList' = [delList EXCEPT ![self] =
                                        deletedFilePaths[self]]
                       /\ delIdx' = [delIdx EXCEPT ![self] = 1]
                  ELSE UNCHANGED <<delPc, delList, delIdx>>
  /\ UNCHANGED <<budget, deleting, local, aliased, remote, nextSha, edits, extPushes, cycles,
                 formats, ccIdx, treeList, deletedFilePaths, ccDoc,
                 ccWhere, ccTree, ccCommit, afVars, delSha, pending>>
  /\ UNCHANGED <<jobVars, viewVars>>

\* lines 392-399: createTree settles
commitChanges_createTree(self) ==
  /\ pc[self] = "createTree"
  /\ \E o \in Outcomes :
       /\ Spend(o)
       /\ IF o = "fail"
          THEN /\ Rejected(self, hist[self])
               /\ UNCHANGED ccTree
          ELSE /\ ccTree' = [ccTree EXCEPT ![self] =
                               CreateTree(ccLatest[self].tree, treeList[self])]
               /\ Goto(self, "createCommit", Bump(hist[self], "commit"))
  /\ UNCHANGED <<budget, deleting, local, stored, aliased, remote, nextSha, edits, extPushes,
                 cycles, formats, ccList, ccShared, ccIdx, treeList,
                 deletedFilePaths, ccDoc, ccWhere, ccLatest, ccCommit, afVars,
                 delVars>>
  /\ UNCHANGED <<jobVars, viewVars>>

\* lines 400-408: createCommit settles
commitChanges_createCommit(self) ==
  /\ pc[self] = "createCommit"
  /\ \E o \in Outcomes :
       /\ Spend(o)
       /\ IF o = "fail"
          THEN /\ Rejected(self, hist[self])
               /\ UNCHANGED <<ccCommit, nextSha>>
          ELSE /\ ccCommit' = [ccCommit EXCEPT ![self] =
                    [sha |-> nextSha, parents |-> <<ccLatest[self].sha>>,
                     tree |-> ccTree[self]]]
               /\ nextSha' = nextSha + 1
               /\ Goto(self, "updateRef", Bump(hist[self], "ref"))
  /\ UNCHANGED <<budget, deleting, local, stored, aliased, remote, edits, extPushes,
                 cycles, formats, ccList, ccShared, ccIdx, treeList,
                 deletedFilePaths, ccDoc, ccWhere, ccLatest, ccTree, afVars,
                 delVars>>
  /\ UNCHANGED <<jobVars, viewVars>>

\* lines 409-414: the branch head after the host has handled the updateRef
\* request with outcome o
HeadMovedAnyway(head, commit, o) == commit
HeadAfterUpdateRef(head, commit, o) ==
  IF o = "ok" /\ UpdateAccepted(head, commit) THEN commit ELSE head

\* lines 409-416 and 422: updateRef settles; on success
\* globalState.update is called with the empty list and awaited
commitChanges_updateRef(self) ==
  /\ pc[self] = "updateRef"
  /\ \E o \in Outcomes :
       /\ Spend(o)
       /\ LET h == [hist[self] EXCEPT
                      !.staleUpdate = ccLatest[self].sha # remote[branch].sha]
          IN  /\ remote' = [remote EXCEPT ![branch] =
                            HeadAfterUpdateRef(@, ccCommit[self], o)]
              /\ IF o = "fail" \/ ~UpdateAccepted(remote[branch], ccCommit[self])
                 THEN /\ Rejected(self, h)
                      /\ UNCHANGED <<stored, ccList, ccShared>>
                 ELSE /\ Cleared
                      /\ Goto(self, "update",
                              [h EXCEPT !.adv = @ + 1,
                                        !.moved = ccCommit[self]])
  /\ UNCHANGED <<budget, deleting, local, aliased, nextSha, edits, extPushes, cycles, formats,
                 ccIdx, treeList, deletedFilePaths, ccDoc, ccWhere, ccLatest,
                 ccTree, ccCommit, afVars, delVars>>
  /\ UNCHANGED <<jobVars, viewVars>>

\* lines 422-428: globalState.update has settled; commitChanges resolves
commitChanges_update(self) ==
  /\ pc[self] = "update"
  /\ Resolved(self, hist[self])
  /\ UNCHANGED <<envVars, ccVars, afVars, delVars>>
  /\ UNCHANGED <<jobVars, viewVars>>

\* -------------------------------------------------------- commitDeletions
\* started by commitChanges without await: it runs on after commitChanges
\* has resolved, and what it throws reaches no caller

\* lines 235-251 and 261-263: getContent settles; file_sha is taken from
\* the answer (a file's sha, the sha of the last entry of a folder's list,
\* '' for anything else) and getBlob is sent with it.  Whatever the request
\* throws, a 404 included, is rethrown: commitDeletions rejects and the
\* remaining paths are not visited
commitDeletions_getContent(self) ==
  /\ delPc[self] = "getContent"
  /\ \E o \in Outcomes :
       /\ Spend(o)
       /\ LET deletedFilePath == delList[self][delIdx[self]]
              existingFile == GetContent(remote[branch].tree, deletedFilePath)
          IN
          IF o = "fail" \/ Status(existingFile) = 404
          THEN /\ delPc' = [delPc EXCEPT ![self] = "idle"]
               /\ hist' = [hist EXCEPT ![self].failed = TRUE]
               /\ UNCHANGED delSha
          ELSE /\ delPc' = [delPc EXCEPT ![self] = "getBlob"]
               /\ delSha' = [delSha EXCEPT ![self] = FileSha(existingFile)]
               /\ hist' = [hist EXCEPT ![self].fetched =
                            [path |-> deletedFilePath,
                             of |-> ShaSource(existingFile).path,
                             sha |-> FileSha(existingFile),
                             after |-> hist[self].req.del]]
  /\ UNCHANGED <<budget, deleting, local, stored, aliased, remote, nextSha, edits, extPushes,
                 cycles, formats, pc, result, lastEnded, ccVars, afVars,
                 delList, delIdx, pending>>
  /\ UNCHANGED <<jobVars, viewVars>>

\* lines 251-260: getBlob settles (the host has no blob for the sha '');
\* deleteFile is sent with blob.sha and not awaited, and the loop goes on to
\* the next path
commitDeletions_getBlob(self) ==
  /\ delPc[self] = "getBlob"
  /\ \E o \in Outcomes :
       /\ Spend(o)
       /\ IF o = "fail" \/ delSha[self] = Empty
          THEN /\ delPc' = [delPc EXCEPT ![self] = "idle"]
               /\ hist' = [hist EXCEPT ![self].failed = TRUE]
               /\ UNCHANGED <<pending, delIdx>>
          ELSE /\ pending' = pending \cup
                    {[by |-> self,
                      path |-> delList[self][delIdx[self]],
                      sha |-> delSha[self],
                      nth |-> hist[self].req.del + 1,
                      fetched |-> hist[self].fetched]}
               /\ hist' = [hist EXCEPT ![self] = Bump(@, "del")]
               /\ delIdx' = [delIdx EXCEPT ![self] = @ + 1]
               /\ delPc' = [delPc EXCEPT ![self] =
                              IF delIdx[self] + 1 > Len(delList[self])
                              THEN "idle" ELSE "getContent"]
  /\ UNCHANGED <<budget, deleting, local, stored, aliased, remote, nextSha, edits, extPushes,
                 cycles, formats, pc, result, lastEnded, ccVars, afVars,
                 delList, delSha>>
  /\ UNCHANGED <<jobVars, viewVars>>

\* the host handles one deleteFile request: it commits the removal on top of
\* the branch head when the path holds a blob and the sha names it
deleteFile_settles ==
  \E d \in pending, o \in Outcomes :
    /\ Spend(o)
    /\ pending' = pending \ {d}
    /\ IF o = "ok" /\ d.path \in RelPaths /\ remote[branch].tree[d.path] = d.sha
       THEN /\ remote' = [remote EXCEPT ![branch] =
                 [sha |-> nextSha, parents |-> <<remote[branch].sha>>,
                  tree |-> [remote[branch].tree EXCEPT ![d.path] = None]]]
            /\ nextSha' = nextSha + 1
            /\ hist' = [hist EXCEPT ![d.by].adv = @ + 1]
       ELSE /\ hist' = [hist EXCEPT ![d.by].failed = TRUE]
            /\ UNCHANGED <<remote, nextSha>>
    /\ UNCHANGED <<budget, deleting, local, stored, aliased, edits, extPushes, cycles, formats,
                   pc, result, lastEnded, ccVars, afVars, delPc, delList,
                   delIdx, delSha>>
    /\ UNCHANGED <<jobVars, viewVars>>

\* ------------------------------------------------------- another writer
\* another client commits a file of the workspace onto the verifier branch
ExternalPush ==
  /\ extPushes < budget.pushes
  /\ remote[branch].sha # 0
  /\ \E p \in {RepoFilePath(q) : q \in WorkspacePaths} :
       remote' = [remote EXCEPT ![branch] =
          [sha |-> nextSha, parents |-> <<remote[branch].sha>>,
           tree |-> [remote[branch].tree EXCEPT ![p] = "B"]]]
  /\ nextSha' = nextSha + 1
  /\ extPushes' = extPushes + 1
  /\ UNCHANGED <<budget, deleting, local, stored, aliased, failures, edits, cycles, formats,
                 pc, result, lastEnded, ccVars, afVars, delVars, hist>>
  /\ UNCHANGED <<jobVars, viewVars>>

\* ------------------------------------------------------ commitActiveFile
\* if (content === documentText) return
SameContent(content, documentText) == content = documentText

\* part_002 lines 9-32 (formatMizar) and linter.ts lines 19-57 (lintMizar):
\* the command reads documentText from the active editor and awaits
\* document.save(); without a token it returns before that
formatMizar ==
  \E token \in Tokens :
    IF MissingToken(token)
    THEN UNCHANGED vars
    ELSE /\ pc[Af] = "idle" /\ formats < budget.formats
         /\ local[activeFile] # None
         /\ formats' = formats + 1
         /\ afDoc' = local[activeFile]
         /\ afWhere' = "try" /\ afLatest' = NoCommit /\ afBlob' = None
         /\ afTree' = NoTree /\ afCommit' = NoCommit
         /\ pc' = [pc EXCEPT ![Af] = "save"]
         /\ result' = [result EXCEPT ![Af] = "none"]
         /\ hist' = [hist EXCEPT ![Af] = NoHist]
         /\ UNCHANGED <<budget, deleting, local, stored, aliased, remote, nextSha,
                        failures, edits, extPushes, cycles, lastEnded, ccVars,
                        delVars>>
         /\ UNCHANGED <<jobVars, viewVars>>

\* part_002 line 61, linter.ts line 60 and autoCommit.ts lines 107-125:
\* document.save() has settled; commitActiveFile is called with the text
\* read before the save and runs up to ensureBranchExists
commitActiveFile_start ==
  /\ pc[Af] = "save"
  /\ Goto(Af, "listBranches", hist[Af])
  /\ UNCHANGED <<envVars, ccVars, afVars, delVars>>
  /\ UNCHANGED <<jobVars, viewVars>>

\* lines 126-128: getBranch settles
commitActiveFile_getBranch ==
  /\ pc[Af] = "getBranch"
  /\ \E o \in Outcomes :
       /\ Spend(o)
       /\ IF o = "fail" \/ remote[branch].sha = 0
          THEN /\ Rejected(Af, hist[Af])
               /\ UNCHANGED afLatest
          ELSE /\ afLatest' = remote[branch]
               /\ Goto(Af, "getContent", hist[Af])
  /\ UNCHANGED <<budget, deleting, local, stored, aliased, remote, nextSha, edits, extPushes,
                 cycles, formats, ccVars, afDoc, afWhere, afBlob, afTree,
                 afCommit, delVars>>
  /\ UNCHANGED <<jobVars, viewVars>>

\* lines 132-155 and 163-178: getContent settles
commitActiveFile_getContent ==
  /\ pc[Af] = "getContent"
  /\ \E o \in Outcomes :
       /\ Spend(o)
       /\ LET existingFile == GetContent(remote[branch].tree,
                                         RepoFilePath(activeFile))
              missing == Status(existingFile) = 404
              content == ContentOf(existingFile)
              eq == ~missing /\ content = afDoc
              h == [hist[Af] EXCEPT !.allEq = @ /\ eq]
          IN  IF o = "fail" \/ (missing /\ ~IsNewFile(Status(existingFile)))
              THEN /\ Rejected(Af, [h EXCEPT !.cmp = Append(@, "err")])
                   /\ UNCHANGED afWhere
              ELSE IF missing
              THEN /\ Goto(Af, "createBlob",
                           Bump([h EXCEPT !.cmp = Append(@, "404")], "blob"))
                   /\ afWhere' = "catch"
              ELSE IF SameContent(content, afDoc)
              THEN /\ Resolved(Af, [h EXCEPT !.cmp =
                                      Append(@, IF eq THEN "eq" ELSE "ne")])
                   /\ UNCHANGED afWhere
              ELSE /\ Goto(Af, "createBlob",
                           Bump([h EXCEPT !.cmp =
                                   Append(@, IF eq THEN "eq" ELSE "ne")],
                                "blob"))
                   /\ afWhere' = "try"
  /\ UNCHANGED <<budget, deleting, local, stored, aliased, remote, nextSha, edits, extPushes,
                 cycles, formats, ccVars, afDoc, afLatest, afBlob, afTree,
                 afCommit, delVars>>
  /\ UNCHANGED <<jobVars, viewVars>>

\* lines 156-162 (try block) and 165-171 (catch block): createBlob settles
commitActiveFile_createBlob ==
  /\ pc[Af] = "createBlob"
  /\ \E o \in Outcomes, status \in {404, 500} :
       /\ Spend(o)
       /\ LET h == hist[Af] IN
          IF o = "ok"
          THEN /\ afBlob' = Encode(afDoc)
               /\ Goto(Af, "createTree", Bump(h, "tree"))
               /\ UNCHANGED afWhere
          ELSE IF afWhere = "try" /\ IsNewFile(status)
          THEN /\ Goto(Af, "createBlob",
                       [Bump(h, "blob") EXCEPT !.failed = TRUE])
               /\ afWhere' = "catch"
               /\ UNCHANGED afBlob
          ELSE /\ Rejected(Af, h)
               /\ UNCHANGED <<afBlob, afWhere>>
  /\ UNCHANGED <<budget, deleting, local, stored, aliased, remote, nextSha, edits, extPushes,
                 cycles, formats, ccVars, afDoc, afLatest, afTree, afCommit,
                 delVars>>
  /\ UNCHANGED <<jobVars, viewVars>>

\* lines 180-194: createTree settles
commitActiveFile_createTree ==
  /\ pc[Af] = "createTree"
  /\ \E o \in Outcomes :
       /\ Spend(o)
       /\ IF o = "fail"
          THEN /\ Rejected(Af, hist[Af])
               /\ UNCHANGED afTree
          ELSE /\ afTree' = CreateTree(afLatest.tree,
                    <<[path |-> RepoFilePath(activeFile), sha |-> afBlob]>>)
               /\ Goto(Af, "createCommit", Bump(hist[Af], "commit"))
  /\ UNCHANGED <<budget, deleting, local, stored, aliased, remote, nextSha, edits, extPushes,
                 cycles, formats, ccVars, afDoc, afWhere, afLatest, afBlob,
                 afCommit, delVars>>
  /\ UNCHANGED <<jobVars, viewVars>>

\* lines 195-203: createCommit settles
commitActiveFile_createCommit ==
  /\ pc[Af] = "createCommit"
  /\ \E o \in Outcomes :
       /\ Spend(o)
       /\ IF o = "fail"
          THEN /\ Rejected(Af, hist[Af])
               /\ UNCHANGED <<afCommit, nextSha>>
          ELSE /\ afCommit' = [sha |-> nextSha, parents |-> <<afLatest.sha>>,
                               tree |-> afTree]
               /\ nextSha' = nextSha + 1
               /\ Goto(Af, "updateRef", Bump(hist[Af], "ref"))
  /\ UNCHANGED <<budget, deleting, local, stored, aliased, remote, edits, extPushes,
                 cycles, formats, ccVars, afDoc, afWhere, afLatest, afBlob,
                 afTree, delVars>>
  /\ UNCHANGED <<jobVars, viewVars>>

\* lines 204-213: updateRef settles
commitActiveFile_updateRef ==
  /\ pc[Af] = "updateRef"
  /\ \E o \in Outcomes :
       /\ Spend(o)
       /\ LET h == [hist[Af] EXCEPT
                      !.staleUpdate = afLatest.sha # remote[branch].sha]
          IN  IF o = "fail" \/ ~UpdateAccepted(remote[branch], afCommit)
              THEN /\ Rejected(Af, h)
                   /\ UNCHANGED remote
              ELSE /\ remote' = [remote EXCEPT ![branch] = afCommit]
                   /\ Resolved(Af, [h EXCEPT !.adv = @ + 1,
                                             !.moved = afCommit])
  /\ UNCHANGED <<budget, deleting, local, stored, aliased, nextSha, edits, extPushes, cycles,
                 formats, ccVars, afVars, delVars>>
  /\ UNCHANGED <<jobVars, viewVars>>

Next ==
  \/ onDidChangeTextDocument
  \/ onDidDeleteFiles
  \/ onDidDeleteFiles_resumes
  \/ commitChanges_start
  \/ \E self \in Procs : ensureBranchExists_listBranches(self)
  \/ \E self \in Procs : ensureBranchExists_getRef(self)
  \/ \E self \in CcRuns : commitChanges_loop(self)
  \/ \E self \in CcRuns : commitChanges_getContent(self)
  \/ \E self \in CcRuns : commitChanges_createBlob(self)
  \/ \E self \in CcRuns : commitChanges_getBranch(self)
  \/ \E self \in CcRuns : commitChanges_createTree(self)
  \/ \E self \in CcRuns : commitChanges_createCommit(self)
  \/ \E self \in CcRuns : commitChanges_updateRef(self)
  \/ \E self \in CcRuns : commitChanges_update(self)
  \/ \E self \in CcRuns : commitDeletions_getContent(self)
  \/ \E self \in CcRuns : commitDeletions_getBlob(self)
  \/ deleteFile_settles
  \/ ExternalPush
  \/ formatMizar
  \/ commitActiveFile_start
  \/ commitActiveFile_getBranch
  \/ commitActiveFile_getContent
  \/ commitActiveFile_createBlob
  \/ commitActiveFile_createTree
  \/ commitActiveFile_createCommit
  \/ commitActiveFile_updateRef

Spec == Init /\ [][Next]_vars


\* ============================================ progress bar: pure parts
\* calculateProgress.ts line 2
MAX_OUTPUT == 50

\* Math.floor(x / y) for x >= 0, y > 0
Floor(x, y) == x \div y

\* calculateProgress.ts lines 10-23
calculateProgressDiff(progressPercent, emitted) ==
  LET progressDiff == Floor(MAX_OUTPUT * progressPercent, 100) - emitted
  IN  IF emitted + progressDiff > MAX_OUTPUT
      THEN MAX_OUTPUT - emitted
      ELSE progressDiff

\* ---- the renderer proper: mizarFunctions.ts lines 119-191
\* the phases the verifier goes through, in the order the server reports
\* them; a snapshot carries a prefix of the list, the empty one before the
\* first phase has started
PhaseOrder == <<"Parser", "MSM", "Analyzer">>
Percents == {0, 1, 30, 60, 100}
ErrorCounts == {0, 2}
Snapshots ==
  {sn \in [k : 0..Len(PhaseOrder), percent : Percents, errs : ErrorCounts,
            finish : BOOLEAN, success : BOOLEAN] :
     sn.success => sn.finish}
progressPhases(sn) == SubSeq(PhaseOrder, 1, sn.k)

\* a line of the channel: the '#' characters written before its label
\* (stray), its label (None without), the '#' characters after it, its
\* error suffix ' *N' (0 without), and whether it has been terminated
BlankLine == [stray |-> 0, label |-> None, marks |-> 0, suffix |-> 0,
              closed |-> FALSE]
Opened(ch) == IF ch = <<>> \/ ch[Len(ch)].closed THEN Append(ch, BlankLine)
              ELSE ch
\* channel.append('#'.repeat(count)); appending '' changes nothing
AppendMarks(ch, count) ==
  IF count = 0 THEN ch
  ELSE [Opened(ch) EXCEPT ![Len(Opened(ch))].marks = @ + count]
\* channel.append(`${padSpace(phase)}:`)
AppendLabel(ch, phase) ==
  LET line == Opened(ch)[Len(Opened(ch))]
  IN  [Opened(ch) EXCEPT ![Len(Opened(ch))] =
         [line EXCEPT !.label = phase, !.stray = line.stray + line.marks,
                      !.marks = 0]]
\* channel.append(` *${numberOfErrors}`)
AppendSuffix(ch, count) == [Opened(ch) EXCEPT ![Len(Opened(ch))].suffix = count]
\* channel.appendLine('')
AppendLine(ch) == [Opened(ch) EXCEPT ![Len(Opened(ch))].closed = TRUE]

\* '#'.repeat(count) throws a RangeError for a negative count
RepeatThrows(count) == count < 0

\* lines 30-45; the number of '#' it pads with
MissingHashTags(numberOfProgressArg) == MAX_OUTPUT - numberOfProgressArg
addMissingHashTags(ch, numberOfProgressArg, numberOfErrors) ==
  IF MAX_OUTPUT < numberOfProgressArg THEN ch
  ELSE LET padded == AppendMarks(ch, MissingHashTags(numberOfProgressArg))
           suffixed == IF numberOfErrors # 0
                       THEN AppendSuffix(padded, numberOfErrors) ELSE padded
       IN  AppendLine(suffixed)

LastOf(list) == IF list = <<>> THEN None ELSE list[Len(list)]

\* lines 145-168: progressPhases.forEach, from index i on
RECURSIVE ForEachPhase(_, _, _, _, _, _)
ForEachPhase(i, phases, percent, ch, tracked, count) ==
  IF i > Len(phases)
  THEN [channel |-> ch, trackedPhases |-> tracked, numberOfProgress |-> count]
  ELSE IF i <= Len(tracked) /\ phases[i] = tracked[i]
  THEN ForEachPhase(i + 1, phases, percent, ch, tracked, count)
  ELSE IF i = Len(phases)
  THEN LET progressDiff == calculateProgressDiff(percent, count)
       IN  ForEachPhase(i + 1, phases, percent,
                        AppendMarks(AppendLabel(ch, phases[i]), progressDiff),
                        Append(tracked, phases[i]), count + progressDiff)
  ELSE ForEachPhase(i + 1, phases, percent,
                    AppendLine(AppendMarks(AppendLabel(ch, phases[i]),
                                           MAX_OUTPUT)),
                    Append(tracked, phases[i]), count)

\* lines 123-169: the progress part of the handler, from the channel, the
\* tracked phases and the number of '#' it finds; threw: it ended in the
\* RangeError of '#'.repeat before writing anything
ProgressBranch(phases, percent, errs, ch, tracked, count) ==
  IF LastOf(tracked) = LastOf(phases)
  THEN LET progressDiff == calculateProgressDiff(percent, count)
       IN  IF RepeatThrows(progressDiff)
           THEN [channel |-> ch, trackedPhases |-> tracked,
                 numberOfProgress |-> count, threw |-> TRUE]
           ELSE [channel |-> AppendMarks(ch, progressDiff),
                 trackedPhases |-> tracked,
                 numberOfProgress |-> count + progressDiff,
                 threw |-> FALSE]
  ELSE LET closed == IF Len(tracked) # 0
                     THEN addMissingHashTags(ch, count, errs)
                     ELSE ch
           r == ForEachPhase(1, phases, percent, closed, tracked, 0)
       IN  [channel |-> r.channel, trackedPhases |-> r.trackedPhases,
            numberOfProgress |-> r.numberOfProgress, threw |-> FALSE]

\* the same for the snapshot sn and the state of the renderer
Rendered(sn) ==
  ProgressBranch(progressPhases(sn), sn.percent, sn.errs,
                 channel, trackedPhases, numberOfProgress)

\* lines 171-191, the channel part: pad the last line, 'End.', the error
\* message
Finished(ch, count, sn) ==
  LET padded == addMissingHashTags(ch, count, sn.errs)
      ended == Append(Append(padded, [BlankLine EXCEPT !.closed = TRUE]),
                      [BlankLine EXCEPT !.label = "End.", !.closed = TRUE])
  IN  IF ~sn.success
      THEN Append(Append(ended, [BlankLine EXCEPT !.closed = TRUE]),
                  [BlankLine EXCEPT !.label = "**** Some errors detected.",
                                    !.closed = TRUE])
      ELSE ended


\* =========================================================== job client
\* clearInterval(id): the interval with that handle, if any, stops
ClearInterval(set, id) == {i \in set : i.id # id}

\* a command is in progress from `isExecuting = true` until its finally
\* block has run: while commitChanges or mizarVerify is awaited.  Stopping
\* the timers does not settle the promise of mizarVerify, so a stopped
\* command with no poll in flight stays in progress
InProgress(j) == jpc[j] \in {"sync", "post", "polling"}

\* the job the stop command is aimed at: posted, not settled
Active(j) == jpc[j] = "polling" /\ settled[j] = "pending"

PollOutcomes == IF pollFailures < MaxPollFailures THEN {"ok", "fail"}
                ELSE {"ok"}
SpendPoll(o) == pollFailures' = IF o = "ok" THEN pollFailures
                                ELSE pollFailures + 1

\* resolve() / reject(): the first call settles the promise of mizarVerify;
\* returnExecutingFunction, awaiting it, then runs its finally block
SettledAs(j, outcome) == IF settled[j] = "pending" THEN outcome ELSE settled[j]
Finally(j, outcome) ==
  /\ settled' = [settled EXCEPT ![j] = SettledAs(j, outcome)]
  /\ jpc' = [jpc EXCEPT ![j] = IF settled[j] = "pending" THEN "done" ELSE @]
  /\ isExecuting' = IF settled[j] = "pending" THEN FALSE ELSE isExecuting

\* fetchData(`verifier/${json.ID}`): one status poll is sent for job j
SendPoll(set, j) ==
  set \cup {[n |-> polls + 1, job |-> j,
             snap |-> Snapshot(server[j], serverPercent[j])]}
PollSent(h, j) ==
  [h EXCEPT
     !.pollInGrace = @ \/ \E k \in 1..Len(timeouts) : timeouts[k] = j,
     !.pollAfterEnvFail = @ \/ h.envFailed,
     !.pollAfterFinish = @ \/ h.finished,
     !.pollAfterStop = @ \/ h.stopped,
     !.pollAfterPollFail = @ \/ h.pollFailed]

\* part_004 lines 31-72: a command is invoked
returnExecutingFunction ==
  IF isExecuting
  THEN \* 'Another command is already executing.': nothing else happens
       UNCHANGED vars
  ELSE \E token \in Tokens :
         /\ token = "" => tokenless < MaxTokenless
         /\ tokenless' = IF token = "" THEN tokenless + 1 ELSE tokenless
         /\ IF MissingToken(token)
            THEN \* 'You have to set "Mizar.OAuthToken"': return
                 /\ UNCHANGED <<isExecuting, diagnostics, jpc, jh>>
            ELSE \E j \in 1..load.jobs :
                   /\ jpc[j] = "none" /\ \A k \in 1..(j - 1) : jpc[k] # "none"
                   /\ isExecuting' = TRUE
                   /\ diagnostics' = None
                   /\ jpc' = [jpc EXCEPT ![j] = "sync"]
                   /\ jh' = [jh EXCEPT ![j].acceptedWhileBusy =
                               \E k \in Jobs : InProgress(k)]
         /\ UNCHANGED <<intervalId, uuid, timers, intervals, timeouts,
                        inflight, polls, server, serverPercent, currentCommand, settled,
                        stops, load, pollFailures>>
         /\ UNCHANGED <<trackedOf, progressOf>>
         /\ UNCHANGED <<syncVars, viewVars>>

\* part_004 lines 72-85: commitChanges settles; mizarVerify is called and
\* posts the job, or the finally block runs
commitChanges_settles(j) ==
  /\ jpc[j] = "sync"
  /\ \E o \in PollOutcomes :
       /\ SpendPoll(o)
       /\ IF o = "ok"
          THEN /\ jpc' = [jpc EXCEPT ![j] = "post"]
               /\ UNCHANGED isExecuting
          ELSE /\ jpc' = [jpc EXCEPT ![j] = "done"]
               /\ isExecuting' = FALSE
  /\ UNCHANGED <<intervalId, uuid, timers, intervals, timeouts, inflight,
                 polls, server, serverPercent, currentCommand, settled, diagnostics, stops,
                 load, tokenless, jh>>
  /\ UNCHANGED <<trackedOf, progressOf>>
  /\ UNCHANGED <<syncVars, viewVars>>

\* mizarFunctions.ts lines 79-81 and 204-214: the POST is answered; the
\* interval is started and updateProgress is called once at once
mizarVerify_posted(j) ==
  /\ jpc[j] = "post"
  /\ \E o \in PollOutcomes :
       /\ SpendPoll(o)
       /\ IF o = "fail"
          THEN /\ Finally(j, "rejected")
               /\ UNCHANGED <<intervalId, uuid, timers, intervals, inflight,
                              polls, server, jh>>
          ELSE /\ timers < load.timers /\ polls < load.polls
               /\ \E st \in {"QUEUED", "PREPARING_ENV"} :
                    /\ server' = [server EXCEPT ![j] = st]
                    /\ inflight' = inflight \cup
                         {[n |-> polls + 1, job |-> j, snap |-> Snapshot(st, 0)]}
               /\ uuid' = j
               /\ timers' = timers + 1
               /\ intervalId' = timers + 1
               /\ intervals' = ClearInterval(intervals, intervalId)
                                 \cup {[id |-> timers + 1, job |-> j]}
               /\ polls' = polls + 1
               /\ jpc' = [jpc EXCEPT ![j] = "polling"]
               /\ jh' = [jh EXCEPT ![j] = PollSent(@, j)]
               /\ UNCHANGED <<isExecuting, settled>>
  /\ UNCHANGED <<timeouts, currentCommand, diagnostics, stops, load, tokenless>>
  /\ UNCHANGED <<serverPercent, trackedOf, progressOf>>
  /\ UNCHANGED <<syncVars, viewVars>>

\* setInterval(updateProgress, 1000) fires: lines 82-83
updateProgress ==
  /\ polls < load.polls
  /\ \E i \in intervals :
       /\ inflight' = SendPoll(inflight, i.job)
       /\ jh' = [jh EXCEPT ![i.job] = PollSent(@, i.job)]
  /\ polls' = polls + 1
  /\ UNCHANGED <<isExecuting, intervalId, uuid, timers, intervals, timeouts,
                 server, serverPercent, jpc, currentCommand, settled, diagnostics, stops,
                 load, tokenless, pollFailures>>
  /\ UNCHANGED <<trackedOf, progressOf>>
  /\ UNCHANGED <<syncVars, viewVars>>

\* lines 94-96: the 5000 ms timeout fires and starts an interval
setTimeout_fires ==
  /\ timeouts # <<>> /\ timers < load.timers
  /\ timers' = timers + 1
  /\ intervalId' = timers + 1
  /\ intervals' = intervals \cup {[id |-> timers + 1, job |-> Head(timeouts)]}
  /\ timeouts' = Tail(timeouts)
  /\ UNCHANGED <<isExecuting, uuid, inflight, polls, server, serverPercent, jpc,
                 currentCommand, settled, diagnostics, stops, load, tokenless,
                 pollFailures, jh>>
  /\ UNCHANGED <<trackedOf, progressOf>>
  /\ UNCHANGED <<syncVars, viewVars>>

\* the checks of the answer handler, in the order of the code
Queued(s) == s.queueNum > 0
MakeenvBranch(s, cmd) == s.isMakeenvFinish /\ cmd = "makeenv"
CommandAfter(s, cmd) ==
  IF MakeenvBranch(s, cmd) /\ s.isMakeenvSuccess THEN "verifier" ELSE cmd
MakeenvFailed(s, cmd) == MakeenvBranch(s, cmd) /\ ~s.isMakeenvSuccess
VerifierBranch(s, cmd) == CommandAfter(s, cmd) = "verifier"
VerifierFinished(s, cmd) == VerifierBranch(s, cmd) /\ s.isVerifierFinish
AttachOnFinish(s) == ~s.isVerifierSuccess

\* lines 84-201: the answer to a status poll is handled.  The checks run in
\* the order of the code; when '#'.repeat throws in the progress branch the
\* rest of the handler is skipped and the catch handler of the poll runs
\* (lines 194-201): it stops the timer intervalId holds and rejects.
updateProgress_then ==
  \E m \in inflight :
    LET j == m.job
        s == m.snap
        cmd == currentCommand[j]
        h == jh[j]
        r == IF VerifierBranch(s, cmd)
             THEN ProgressBranch(s.progressPhases, s.progressPercent,
                                 s.numOfErrors, <<>>, trackedOf[j],
                                 progressOf[j])
             ELSE [channel |-> <<>>, trackedPhases |-> trackedOf[j],
                   numberOfProgress |-> progressOf[j], threw |-> FALSE]
        finishes == VerifierFinished(s, cmd) /\ ~r.threw
        stopsTimer == Queued(s) \/ MakeenvFailed(s, cmd) \/ finishes
                        \/ r.threw
        settles == MakeenvFailed(s, cmd) \/ finishes \/ r.threw
        attaches == MakeenvFailed(s, cmd)
                      \/ (finishes /\ AttachOnFinish(s))
        writes == Queued(s)
                    \/ (MakeenvBranch(s, cmd) /\ s.isMakeenvSuccess)
                    \/ r.channel # <<>>
                    \/ finishes
    IN  /\ inflight' = inflight \ {m}
        /\ timeouts' = IF Queued(s) THEN Append(timeouts, j) ELSE timeouts
        /\ intervals' = IF stopsTimer THEN ClearInterval(intervals, intervalId)
                        ELSE intervals
        /\ intervalId' = IF stopsTimer THEN 0 ELSE intervalId
        /\ currentCommand' = [currentCommand EXCEPT ![j] = CommandAfter(s, cmd)]
        /\ trackedOf' = [trackedOf EXCEPT ![j] = r.trackedPhases]
        /\ progressOf' = [progressOf EXCEPT ![j] = r.numberOfProgress]
        /\ diagnostics' = IF attaches THEN s.errorList ELSE diagnostics
        /\ IF settles
           THEN Finally(j, IF MakeenvFailed(s, cmd) \/ r.threw THEN "rejected"
                           ELSE "resolved")
           ELSE UNCHANGED <<settled, jpc, isExecuting>>
        /\ jh' = [jh EXCEPT ![j] =
             [h EXCEPT
                !.lastPoll = IF m.n > @ THEN m.n ELSE @,
                !.reordered = @ \/ m.n < h.lastPoll,
                !.enteredRunning = @ \/ CommandAfter(s, cmd) = "verifier",
                !.asPreparing = @ \/ (h.enteredRunning /\ MakeenvBranch(s, cmd)),
                !.rendered = @ \/ VerifierBranch(s, cmd),
                !.replaced = @ \/ (h.rendered /\ Queued(s)),
                !.attached = IF attaches /\ @ < 2 THEN @ + 1 ELSE @,
                !.envFailed = @ \/ MakeenvFailed(s, cmd),
                !.envDiag = IF MakeenvFailed(s, cmd)
                            THEN attaches /\ diagnostics' = s.errorList ELSE @,
                !.finished = @ \/ finishes,
                !.finishOk = IF finishes THEN s.isVerifierSuccess ELSE @,
                !.finishDiag = IF finishes THEN attaches ELSE @,
                !.threw = @ \/ r.threw,
                !.lateChange = @ \/ (settled[j] # "pending"
                                     /\ (writes \/ settled'[j] # settled[j])),
                !.queuedSeen = @ \/ Queued(s),
                !.lateAnswer = @ \/ h.stopped,
                !.actedAfterStop = @ \/ (h.stopped /\ (writes \/ attaches
                                           \/ settles \/ Queued(s)))]]
        /\ UNCHANGED <<uuid, timers, polls, server, serverPercent, stops, load,
                       tokenless, pollFailures>>
        /\ UNCHANGED <<syncVars, viewVars>>

\* lines 194-201: a status poll fails
updateProgress_catch ==
  /\ pollFailures < MaxPollFailures
  /\ pollFailures' = pollFailures + 1
  /\ \E m \in inflight :
       /\ inflight' = inflight \ {m}
       /\ Finally(m.job, "rejected")
       /\ jh' = [jh EXCEPT ![m.job] =
            [@ EXCEPT !.lastPoll = IF m.n > @ THEN m.n ELSE @,
                      !.reordered = @ \/ m.n < jh[m.job].lastPoll,
                      !.pollFailed = TRUE,
                      !.lateAnswer = @ \/ jh[m.job].stopped,
                      !.actedAfterStop = @ \/ jh[m.job].stopped]]
  /\ intervals' = ClearInterval(intervals, intervalId)
  /\ intervalId' = 0
  /\ UNCHANGED <<uuid, timers, timeouts, polls, server, serverPercent, currentCommand,
                 diagnostics, stops, load, tokenless>>
  /\ UNCHANGED <<trackedOf, progressOf>>
  /\ UNCHANGED <<syncVars, viewVars>>

\* part_004 lines 145-152: the stop command
stopCommand ==
  /\ stops < MaxStops
  /\ stops' = stops + 1
  /\ intervals' = IF intervalId # 0 THEN ClearInterval(intervals, intervalId)
                  ELSE intervals
  /\ isExecuting' = FALSE
  /\ jh' = [j \in Jobs |->
       [jh[j] EXCEPT
          !.stopped = @ \/ Active(j),
          !.stoppedInGrace = @ \/ (Active(j) /\ intervalId = 0
                                     /\ \E k \in 1..Len(timeouts) :
                                          timeouts[k] = j),
          !.deletes = IF intervalId # 0 /\ uuid = j THEN @ + 1 ELSE @]]
  /\ UNCHANGED <<intervalId, uuid, timers, timeouts, inflight, polls, server, serverPercent,
                 jpc, currentCommand, settled, diagnostics, load, tokenless,
                 pollFailures>>
  /\ UNCHANGED <<trackedOf, progressOf>>
  /\ UNCHANGED <<syncVars, viewVars>>

\* the job server moves a job on: to its next status, or, while the
\* analysis runs, to the next progressPercent
JobServer_advances ==
  \E j \in Jobs :
    /\ \/ \E st \in ServerStates :
            /\ st \in ServerNext(server[j])
            /\ server' = [server EXCEPT ![j] = st]
            /\ serverPercent' =
                 [serverPercent EXCEPT ![j] =
                    IF st = "RUNNING_ANALYSIS" THEN RunningPercents[1]
                    ELSE IF st = "SUCCEEDED" THEN FinalPercent
                    ELSE @]
       \/ /\ server[j] = "RUNNING_ANALYSIS"
          /\ \E i \in 1..(Len(RunningPercents) - 1) :
               /\ serverPercent[j] = RunningPercents[i]
               /\ serverPercent' =
                    [serverPercent EXCEPT ![j] = RunningPercents[i + 1]]
          /\ UNCHANGED server
    /\ UNCHANGED <<isExecuting, intervalId, uuid, timers, intervals, timeouts,
                   inflight, polls, jpc, currentCommand, settled, diagnostics,
                   stops, load, tokenless, pollFailures, jh>>
    /\ UNCHANGED <<trackedOf, progressOf>>
    /\ UNCHANGED <<syncVars, viewVars>>

\* the sync engine stands still while the job client is examined
InitJob ==
  /\ SyncQuiet
  /\ JobIdle
  /\ ViewIdle

NextJob ==
  \/ returnExecutingFunction
  \/ \E j \in Jobs : commitChanges_settles(j)
  \/ \E j \in Jobs : mizarVerify_posted(j)
  \/ updateProgress
  \/ setTimeout_fires
  \/ updateProgress_then
  \/ updateProgress_catch
  \/ stopCommand
  \/ JobServer_advances

SpecJob == InitJob /\ [][NextJob]_vars

\* every request is answered, every timer that is due fires and the job
\* server moves every job on to a terminal status; invoking a command,
\* stopping it and the failure of a poll are left to the environment
FairJob ==
  /\ WF_vars(\E j \in Jobs : commitChanges_settles(j))
  /\ WF_vars(\E j \in Jobs : mizarVerify_posted(j))
  /\ WF_vars(updateProgress)
  /\ WF_vars(setTimeout_fires)
  /\ WF_vars(updateProgress_then)
  /\ WF_vars(JobServer_advances)

SpecJobLive == SpecJob /\ FairJob


\* ===================================================== progress renderer
\* one call of calculateProgressDiff
calculateProgressDiff_returns ==
  /\ diffOut = <<>>
  /\ diffOut' = <<calculateProgressDiff(diffIn.percent, diffIn.emitted)>>
  /\ UNCHANGED <<diffIn, syncVars, jobVars, renderVars, diagVars>>

InitDiff ==
  /\ SyncQuiet /\ JobIdle /\ load.jobs = 1
  /\ diffIn \in [percent : 0..MaxPercent, emitted : 0..MAX_OUTPUT]
  /\ diffOut = <<>>
  /\ RenderIdle /\ DiagIdle

NextDiff == calculateProgressDiff_returns

SpecDiff == InitDiff /\ [][NextDiff]_vars

\* lines 119-192: a snapshot is handled with currentCommand = 'verifier'.
\* The handler tests nothing else: it runs for an answer that comes after
\* the finishing one and for a phase list shorter than the tracked one
updateProgress_render ==
  /\ seen.count < MaxSnapshots
  /\ \E sn \in Snapshots :
       LET r == Rendered(sn)
           padded == /\ LastOf(trackedPhases) # LastOf(progressPhases(sn))
                     /\ Len(trackedPhases) # 0
       IN  /\ trackedPhases' = r.trackedPhases
           /\ numberOfProgress' = r.numberOfProgress
           /\ channel' = IF sn.finish /\ ~r.threw
                         THEN Finished(r.channel, r.numberOfProgress, sn)
                         ELSE r.channel
           /\ seen' = [count |-> seen.count + 1,
                       k |-> sn.k,
                       percent |-> sn.percent,
                       errs |-> sn.errs,
                       shrunk |-> seen.shrunk \/ sn.k < seen.k,
                       closedErrs |->
                         LET atChange ==
                               IF padded
                               THEN Append(seen.closedErrs,
                                      [phase |-> LastOf(trackedPhases),
                                       errs |-> sn.errs])
                               ELSE seen.closedErrs
                         IN  IF sn.finish /\ ~r.threw
                             THEN Append(atChange,
                                    [phase |-> LastOf(r.trackedPhases),
                                     errs |-> sn.errs])
                             ELSE atChange,
                       threw |-> r.threw,
                       finished |-> seen.finished \/ (sn.finish /\ ~r.threw)]
  /\ UNCHANGED <<syncVars, jobVars, diffVars, diagVars>>

InitProgress ==
  /\ SyncQuiet /\ JobIdle /\ load.jobs = 1
  /\ DiffIdle /\ RenderIdle /\ DiagIdle

NextProgress == updateProgress_render

SpecProgress == InitProgress /\ [][NextProgress]_vars


\* ============================================================ diagnostics
\* the error lists the job server and the linter answer with: 1-indexed
\* line and column, and a message
ErrorLines == {1, 3}
ErrorColumns == {1, 2}
ErrorMessages == {"m1", "m2"}
ErrorDictionary ==
  [errorLine : ErrorLines, errorColumn : ErrorColumns,
   errorMessage : ErrorMessages]
ErrorLists ==
  UNION {[1..n -> ErrorDictionary] : n \in 0..MaxErrors}

\* vscode.DiagnosticSeverity: Error = 0 (the default), Information = 2
SeverityError == 0
SeverityInformation == 2

\* new vscode.Diagnostic(new vscode.Range(p, p), errorMessage, severity) with
\* p = new vscode.Position(errorLine - 1, errorColumn - 1)
Diagnostic(errorInfo, severity) ==
  [line |-> errorInfo.errorLine - 1,
   character |-> errorInfo.errorColumn - 1,
   message |-> errorInfo.errorMessage,
   severity |-> severity]

\* errorList.forEach(... diagnostics.push(diagnostic))
Diagnostics(errorList, severity) ==
  [i \in 1..Len(errorList) |-> Diagnostic(errorList[i], severity)]

\* diagnosticCollection.set(uri, diagnostics)
MergedInto(collection, uri, list) ==
  [collection EXCEPT ![uri] = @ \o list]
SetDiagnosticsOf(collection, uri, list) ==
  [collection EXCEPT ![uri] = list]

\* part_005 lines 164-186
setDiagnostics ==
  /\ diagCalls < MaxDiagCalls
  /\ diagCalls' = diagCalls + 1
  /\ \E errorList \in ErrorLists, uri \in Docs :
       /\ diagCollection' =
            SetDiagnosticsOf(diagCollection, uri,
                             Diagnostics(errorList, SeverityError))
       /\ lastSet' = [n |-> lastSet.n + 1, by |-> "setDiagnostics",
                      uri |-> uri, errorList |-> errorList,
                      before |-> diagCollection[uri]]
  /\ UNCHANGED linting
  /\ UNCHANGED <<syncVars, jobVars, diffVars, renderVars>>

\* linter.ts lines 18-57: a lint pass is invoked on the active document;
\* there is no busy check, a pass may start while another one is pending
lintMizar ==
  \E token \in Tokens, uri \in Docs :
    IF MissingToken(token)
    THEN UNCHANGED vars
    ELSE /\ diagCalls < MaxDiagCalls
         /\ diagCalls' = diagCalls + 1
         /\ diagCollection' = [u \in Docs |-> <<>>]
         /\ linting' = linting \cup {[n |-> diagCalls + 1, uri |-> uri]}
         /\ UNCHANGED lastSet
         /\ UNCHANGED <<syncVars, jobVars, diffVars, renderVars>>

\* linter.ts lines 59-87: commitActiveFile failed (nothing is fetched), or
\* the linter answered; every pass handles its own answer with its own
\* diagnostics array
lintMizar_then ==
  \E pass \in linting :
   LET uri == pass.uri IN
    /\ linting' = linting \ {pass}
    /\ \/ UNCHANGED <<diagCollection, lastSet>>
       \/ \E errorList \in ErrorLists :
            IF Len(errorList) > 0
            THEN /\ diagCollection' =
                      SetDiagnosticsOf(diagCollection, uri,
                                       Diagnostics(errorList,
                                                   SeverityInformation))
                 /\ lastSet' = [n |-> lastSet.n + 1, by |-> "lintMizar",
                                uri |-> uri, errorList |-> errorList,
                                before |-> diagCollection[uri]]
            ELSE UNCHANGED <<diagCollection, lastSet>>
    /\ UNCHANGED diagCalls
    /\ UNCHANGED <<syncVars, jobVars, diffVars, renderVars>>

InitDiag ==
  /\ SyncQuiet /\ JobIdle /\ load.jobs = 1
  /\ DiffIdle /\ RenderIdle /\ DiagIdle

NextDiag ==
  \/ setDiagnostics
  \/ lintMizar
  \/ lintMizar_then

SpecDiag == InitDiag /\ [][NextDiag]_vars


\* ------------------------------------------------------------ properties
Done(self) == pc[self] = "idle" /\ result[self] # "none"
Succeeded(self) == Done(self) /\ result[self] = "resolved"
Last(seq) == seq[Len(seq)]
Latest(self) == IF self \in CcRuns THEN ccLatest[self] ELSE afLatest

\* C1: when a step of a commitChanges cycle failed, commitChanges rejected
\* and the change set still holds every path it held when the cycle started.
C1_FailureSurfacedSetKept ==
  \A self \in CcRuns :
    (pc[self] = "idle" /\ hist[self].failed)
       => /\ result[self] = "rejected"
          /\ hist[self].start \subseteq Range(stored)

\* C2: a path of the repository recorded by a notification while
\* commitChanges was running was either visited by that cycle or is still in
\* the change set afterwards.
C2_RecordedPathNotLost ==
  \A self \in CcRuns :
    Done(self) =>
      \A p \in hist[self].recorded :
        Includes(p, repositoryPath) =>
          p \in hist[self].processed \/ Contains(stored, p)

\* C3 as stated: a commitChanges run that starts right after a run that
\* succeeded, with no notification between the two runs, issues no mutating
\* request (no create-blob, create-tree, create-commit, create-ref,
\* update-ref, delete-file).
C3_SecondRunMutatesNothing ==
  \A self \in CcRuns :
    hist[self].idem => Mutations(hist[self].req) = 0

\* C3: a commitChanges run that starts right after a run that succeeded, with
\* no notification since that run wrote the empty change set, issues no
\* mutating request.
C3_DrainedRunMutatesNothing ==
  \A self \in CcRuns :
    hist[self].drained => Mutations(hist[self].req) = 0

\* the second run has ended, after a first run that moved the branch
C3_Witness ==
  /\ cycles = 2 /\ extPushes = 0 /\ remote[branch].sha > 1
  /\ \E self \in CcRuns : Done(self) /\ hist[self].drained

\* C4: no blob and no tree entry is created for a path whose local content
\* equals the content on the verifier branch, and a cycle in which every
\* path is equal creates no blob, no tree, no commit and updates no ref, in
\* commitChanges and in commitActiveFile.
C4_EqualContentSkipped ==
  /\ \A self \in Procs :
       /\ pc[self] = "createBlob" => Last(hist[self].cmp) # "eq"
       /\ hist[self].allEq =>
            /\ hist[self].req.blob = 0 /\ hist[self].req.tree = 0
            /\ hist[self].req.commit = 0 /\ hist[self].req.ref = 0
  /\ \A self \in CcRuns :
       \A i \in 1..Len(treeList[self]) : treeList[self][i].why # "eq"

\* both callers ended a cycle whose paths were all equal on the branch
C4_Witness ==
  /\ \E self \in CcRuns :
       /\ Succeeded(self) /\ hist[self].allEq
       /\ hist[self].cmp = <<"eq", "eq">>
  /\ Succeeded(Af) /\ hist[Af].allEq /\ hist[Af].cmp = <<"eq">>

\* the cycle of C5: one workspace path in the change set, found different
\* from the branch, every request succeeding
OnePathCycle(self) ==
  /\ Succeeded(self) /\ ~hist[self].failed
  /\ hist[self].startLen = 1
  /\ hist[self].start \subseteq WorkspacePaths
  /\ hist[self].cmp # <<>> /\ hist[self].cmp[1] = "ne"

\* C5: a cycle whose change set is one path, differing from the branch,
\* issues exactly one create-blob, one create-tree with one new entry, one
\* create-commit with one parent and one ref update.
C5_ExactlyOneOfEach ==
  \A self \in CcRuns :
    OnePathCycle(self) =>
      /\ hist[self].req.blob = 1 /\ Len(treeList[self]) = 1
      /\ hist[self].req.tree = 1 /\ hist[self].req.commit = 1
      /\ Len(ccCommit[self].parents) = 1 /\ hist[self].req.ref = 1

\* C6: one commitChanges cycle advances the verifier branch by at most one
\* commit; that commit has exactly one parent and covers all changed files
\* of the cycle: when the cycle moves the branch, every workspace path of
\* the change set it started with is in the commit's tree as it is in the
\* workspace, with the local content, or absent when the file was deleted.
C6_OneCommitCoversAll ==
  [][\A self \in CcRuns :
       /\ hist'[self].adv <= 1
       /\ hist'[self].moved # NoCommit
            => Len(hist'[self].moved.parents) = 1
       /\ (pc[self] = "updateRef" /\ pc'[self] = "update")
            => \A p \in hist[self].start \cap WorkspacePaths :
                 LET blob == hist'[self].moved.tree[RepoFilePath(p)]
                 IN  IF local[p] = None THEN blob = None
                     ELSE blob # None /\ Decode(blob) = local[p]
    ]_vars

\* C7: the verifier ref only ever moves to a commit whose single parent is
\* the head at that moment; a ref update whose caller read a head that has
\* moved since fails, the caller rejects, and the ref stays where it is.
C7_RefOnlyFastForwarded ==
  [][/\ (remote'[branch].sha # remote[branch].sha /\ remote[branch].sha # 0)
          => remote'[branch].parents = <<remote[branch].sha>>
     /\ \A self \in Procs :
          (/\ pc[self] = "updateRef" /\ pc'[self] # "updateRef"
           /\ Latest(self).sha # remote[branch].sha)
            => (result'[self] = "rejected" /\ remote' = remote)]_vars

\* commitChanges lost the race for the ref against commitActiveFile
C7_Witness ==
  /\ \E self \in CcRuns :
       hist[self].staleUpdate /\ result[self] = "rejected"
  /\ hist[Af].adv = 1 /\ extPushes = 0

\* C8: the tree list handed to create-tree holds no two entries with the
\* same path.
C8_NoDuplicateTreePaths ==
  \A self \in CcRuns :
    pc[self] = "createTree" =>
      \A i, j \in 1..Len(treeList[self]) :
        i # j => treeList[self][i].path # treeList[self][j].path

\* C9: an ensureBranchExists call that found the verifier branch missing ends
\* having created refs/heads/verifier at the head of the default branch; a
\* call that found the branch creates no ref.
C9_MissingBranchCreated ==
  \A self \in Procs :
    /\ (hist[self].sawMissing /\ hist[self].ensured # "no") =>
         /\ hist[self].ensured = "ok"
         /\ hist[self].req.createRef = 1
         /\ remote[branch].sha # 0
    /\ ~hist[self].sawMissing => hist[self].req.createRef = 0

\* C10: two ensureBranchExists calls that both found the branch missing while
\* the other was creating it both end without throwing.
C10_RacingEnsureTolerated ==
  \A self \in Procs :
    (hist[self].raced /\ hist[self].ensured # "no") =>
       hist[self].ensured = "ok"

\* C11: a 404 from the content fetch of a path that exists locally is the
\* signal "new file": the caller goes on to create a blob from the local
\* text without marking a failure or settling, and when that blob is created
\* commitChanges appends a tree entry for the path holding the local text
\* (commitActiveFile keeps the blob for its tree).
C11_NotFoundMeansNewFile ==
  [][/\ \A self \in CcRuns :
          /\ (/\ pc[self] = "getContent" /\ pc'[self] # "getContent"
              /\ failures' = failures
              /\ remote[branch].tree[
                   RepoFilePath(List(self)[ccIdx[self]])] = None)
             => /\ pc'[self] = "createBlob" /\ result'[self] = "none"
                /\ hist'[self].failed = hist[self].failed
                /\ hist'[self].req.blob = hist[self].req.blob + 1
          /\ (/\ pc[self] = "createBlob" /\ pc'[self] # "createBlob"
              /\ failures' = failures
              /\ Last(hist[self].cmp) = "404")
             => /\ pc'[self] = "loop"
                /\ hist'[self].failed = hist[self].failed
                /\ treeList'[self] = Append(treeList[self],
                      [path |-> RepoFilePath(List(self)[ccIdx[self]]),
                       sha |-> Encode(ccDoc[self]), why |-> "404"])
     /\ (/\ pc[Af] = "getContent" /\ pc'[Af] # "getContent"
          /\ failures' = failures
          /\ remote[branch].tree[RepoFilePath(activeFile)] = None)
         => /\ pc'[Af] = "createBlob" /\ result'[Af] = "none"
            /\ hist'[Af].failed = hist[Af].failed
            /\ hist'[Af].req.blob = hist[Af].req.blob + 1
     /\ (/\ pc[Af] = "createBlob" /\ pc'[Af] # "createBlob"
          /\ failures' = failures
          /\ Last(hist[Af].cmp) = "404")
         => /\ pc'[Af] = "createTree" /\ afBlob' = Encode(afDoc)
            /\ hist'[Af].failed = hist[Af].failed
    ]_vars

\* a cycle that met a 404, created the blob and committed it without failure
C11_Witness ==
  \E self \in CcRuns :
    /\ Succeeded(self) /\ hist[self].adv = 1 /\ ~hist[self].failed
    /\ \E i \in 1..Len(treeList[self]) :
         /\ treeList[self][i].why = "404"
         /\ remote[branch].tree[treeList[self][i].path]
              = treeList[self][i].sha

\* C12: every delete-file request in flight carries the hash that the
\* getContent of its own path returned for that path (not for another one),
\* and that getContent was made after the previous delete-file request of
\* the cycle had been sent.
C12_DeleteUsesFreshHash ==
  \A d \in pending :
    /\ d.fetched.path = d.path
    /\ d.fetched.of = d.path
    /\ d.sha = d.fetched.sha
    /\ d.fetched.after = d.nth - 1

\* C13: the client's view of a job only moves forward: once currentCommand is
\* 'verifier' no answer is handled by the makeenv branch, and once the job's
\* promise has settled no later answer changes its outcome or writes output
\* (stated for behaviours in which no request to the job server fails).
C13_ForwardOnlyTerminalFinal ==
  pollFailures = 0 =>
    \A j \in Jobs : ~jh[j].asPreparing /\ ~jh[j].lateChange

\* C14: a job never has two status polls unanswered at once, and answers are
\* handled in the order their polls were sent.
C14_OnePollInFlight ==
  \A j \in Jobs :
    /\ Cardinality({m \in inflight : m.job = j}) <= 1
    /\ ~jh[j].reordered

\* C15: after an answer with queueNum > 0 no poll is sent while the grace
\* timeout it started is pending, and afterwards one interval polls the job
\* (one request per second).
C15_GraceThenSteady ==
  \A j \in Jobs :
    /\ ~jh[j].pollInGrace
    /\ Cardinality({i \in intervals : i.job = j}) <= 1

\* C16: once an answer reported a failed environment preparation, its error
\* list is attached, the job is rejected, no poll of the job is sent any
\* more, the client never enters 'verifier' and renders no progress.
C16_EnvFailureStops ==
  \A j \in Jobs :
    jh[j].envFailed =>
      /\ jh[j].envDiag
      /\ settled[j] = "rejected"
      /\ ~jh[j].pollAfterEnvFail
      /\ currentCommand[j] = "makeenv" /\ ~jh[j].rendered

\* C17: once an answer reported isVerifierFinish in 'verifier', no poll of
\* the job is sent any more, the job is resolved, and diagnostics were
\* attached exactly when isVerifierSuccess was false (stated for behaviours
\* in which no request to the job server fails).
C17_FinishStops ==
  \A j \in Jobs :
    jh[j].finished /\ pollFailures = 0 =>
      /\ ~jh[j].pollAfterFinish
      /\ settled[j] = "resolved"
      /\ jh[j].finishDiag <=> ~jh[j].finishOk

\* C18: the stop command, invoked while a job is posted and not settled,
\* sends one DELETE for the job and no poll of the job is sent afterwards.
C18_StopStopsPolling ==
  \A j \in Jobs :
    jh[j].stopped => jh[j].deletes = 1 /\ ~jh[j].pollAfterStop

\* C19: an answer that arrives after the stop command is discarded: its
\* handler writes nothing, attaches nothing, settles nothing and starts no
\* timer.
C19_LateAnswerDiscarded ==
  \A j \in Jobs : ~jh[j].actedAfterStop

\* C20: at most one command is in progress, and no command is accepted while
\* an earlier one is still syncing, posting, polling or waiting.
C20_OneActiveJob ==
  /\ Cardinality({j \in Jobs : InProgress(j)}) <= 1
  /\ \A j \in Jobs : ~jh[j].acceptedWhileBusy

Clamp(x, lo, hi) == IF x < lo THEN lo ELSE IF x > hi THEN hi ELSE x

\* C21: for percent in 0..100 and emitted in 0..W the result of
\* calculateProgressDiff is clamp(floor(W * percent / 100) - emitted, 0,
\* W - emitted): never negative, and emitted + result never exceeds W.
C21_DiffIsClamped ==
  (diffOut # <<>> /\ diffIn.percent <= 100) =>
    /\ diffOut[1] = Clamp(Floor(MAX_OUTPUT * diffIn.percent, 100)
                            - diffIn.emitted,
                          0, MAX_OUTPUT - diffIn.emitted)
    /\ diffOut[1] >= 0
    /\ diffIn.emitted + diffOut[1] <= MAX_OUTPUT

\* the lines of the channel that carry a phase label, and the line of a phase
IsPhaseLine(line) == line.label \in Range(PhaseOrder)
PhaseLines(ch) == SelectSeq(ch, IsPhaseLine)
LineOf(ch, phase) == ch[CHOOSE i \in 1..Len(ch) : ch[i].label = phase]
HasLine(ch, phase) == \E i \in 1..Len(ch) : ch[i].label = phase

\* the '#' characters on a line of the channel: those written before its
\* label and those written after it
Hashes(line) == line.stray + line.marks

\* C22: numberOfProgress is always within 0..W; while the last tracked phase
\* stays the same it never decreases, whatever the snapshots carry; and, no
\* finishing snapshot having been handled, it equals the number of '#' on
\* the line of that phase.
C22_EmittedMonotoneBounded ==
  [][/\ numberOfProgress' \in 0..MAX_OUTPUT
     /\ LastOf(trackedPhases') = LastOf(trackedPhases)
          => numberOfProgress' >= numberOfProgress
     /\ (trackedPhases' # <<>> /\ ~seen'.finished)
          => /\ HasLine(channel', LastOf(trackedPhases'))
             /\ Hashes(LineOf(channel', LastOf(trackedPhases')))
                  = numberOfProgress'
    ]_renderVars

\* the errors reported by the snapshot at which the line of a phase was
\* padded (the first call of addMissingHashTags with that phase the last
\* tracked one), 0 for a line that was written complete
ClosingErrs(phase) ==
  LET at == {k \in 1..Len(seen.closedErrs) : seen.closedErrs[k].phase = phase}
  IN  IF at = {} THEN 0
      ELSE seen.closedErrs[CHOOSE k \in at : \A m \in at : k <= m].errs

\* C23: the line of every phase other than the last tracked one is
\* terminated and holds exactly W '#'; it carries a suffix ' *N' only when
\* the snapshot that padded it reported N # 0 errors.
C23_ClosedLineIsFull ==
  \A i \in 1..Len(channel) :
    (IsPhaseLine(channel[i]) /\ channel[i].label # LastOf(trackedPhases)) =>
      /\ channel[i].closed
      /\ Hashes(channel[i]) = MAX_OUTPUT
      /\ channel[i].suffix # 0
           => channel[i].suffix = ClosingErrs(channel[i].label)

\* C24: while the phase lists only grow by appending, there is one labelled
\* line per phase in the order of the phase list, with W '#' on every line
\* but the last and floor(W * percent / 100) on the last, percent being
\* that of the snapshot handled last (stated for the lines of a job that
\* has not finished).
C24_LastLineFollowsPercent ==
  (seen.finished \/ seen.shrunk) \/
  /\ [i \in 1..Len(PhaseLines(channel)) |-> PhaseLines(channel)[i].label]
       = trackedPhases
  /\ \A i \in 1..Len(PhaseLines(channel)) :
       Hashes(PhaseLines(channel)[i]) =
         IF i < Len(PhaseLines(channel)) THEN MAX_OUTPUT
         ELSE Floor(MAX_OUTPUT * seen.percent, 100)

\* C25: once the progress branch has written for a job, no snapshot of that
\* job handled later replaces the content of the output channel.
C25_ChannelAppendOnly ==
  \A j \in Jobs : ~jh[j].replaced

\* C27: a command invoked while the OAuth token is empty sends no request
\* (to the git host or the job server), starts no timer, and leaves the busy
\* flag, the change set, the output channel and the diagnostics as they
\* were; nothing is left behind that would run later.
C27_NoTokenNoEffect ==
  [][tokenless' # tokenless =>
       UNCHANGED <<syncVars, viewVars, isExecuting, intervalId, uuid, timers,
                   intervals, timeouts, inflight, polls, server,
                   serverPercent, jpc, currentCommand, trackedOf,
                   progressOf, settled, diagnostics, stops, load,
                   pollFailures, jh>>]_vars

\* a command was invoked without a token after an earlier one had run and
\* left diagnostics behind
C27_Witness ==
  /\ tokenless = 1 /\ ~isExecuting
  /\ diagnostics # None
  /\ \E j \in Jobs : jpc[j] = "done"

\* C26: diagnosticCollection.set, called by setDiagnostics or by the lint
\* pass with an error list, leaves the document with exactly one diagnostic
\* per entry of the list, in the order of the list, at (errorLine - 1,
\* errorColumn - 1) with the entry's message; what was attached to the
\* document before is gone, and the other documents keep theirs.
C26_DiagnosticsReplaced ==
  [][lastSet'.n # lastSet.n =>
       LET set == diagCollection'[lastSet'.uri]
           errorList == lastSet'.errorList
       IN  /\ Len(set) = Len(errorList)
           /\ \A i \in 1..Len(errorList) :
                /\ set[i].line = errorList[i].errorLine - 1
                /\ set[i].character = errorList[i].errorColumn - 1
                /\ set[i].message = errorList[i].errorMessage
           /\ \A u \in Docs \ {lastSet'.uri} :
                diagCollection'[u] = diagCollection[u]
    ]_diagVars

\* setDiagnostics ran for a document that had other diagnostics attached,
\* with a list of two entries at different positions
C26_Witness ==
  /\ lastSet.by = "setDiagnostics"
  /\ lastSet.before # <<>>
  /\ Len(lastSet.errorList) = 2
  /\ lastSet.errorList[1].errorLine # lastSet.errorList[2].errorLine
  /\ lastSet.before[1].message # lastSet.errorList[1].errorMessage
  /\ diagCollection[lastSet.uri][1].line = lastSet.errorList[1].errorLine - 1

\* C28: a step of commitChanges taken with tree entries collected, from the
\* head fetch to the ref update, leaves the verifier branch where it was
\* unless it is the ref update succeeding, which moves it to the created
\* commit; when the ref update fails no branch points at the created commit.
C28_OnlyRefUpdateMovesBranch ==
  [][\A self \in CcRuns :
       (/\ pc[self] \in {"getBranch", "createTree", "createCommit",
                         "updateRef"}
        /\ pc'[self] # pc[self]
        /\ Len(treeList[self]) > 0)
         => IF pc[self] = "updateRef" /\ pc'[self] = "update"
            THEN remote'[branch] = ccCommit[self]
            ELSE /\ remote'[branch] = remote[branch]
                 /\ pc[self] = "updateRef"
                      => \A b \in BranchNames :
                           remote'[b].sha # ccCommit[self].sha
    ]_vars

\* a cycle with tree entries was rejected at its ref update: tree and commit
\* were created, the branch moved on meanwhile
C28_Witness ==
  \E self \in CcRuns :
    /\ pc[self] = "idle" /\ result[self] = "rejected"
    /\ Len(treeList[self]) > 0
    /\ hist[self].req.ref = 1
    /\ remote[branch].sha # ccCommit[self].sha

C30_JobAfterMutationsSettled ==
  [][\A self \in CcRuns :
       (pc[self] # "idle" /\ pc'[self] = "idle" /\ result'[self] = "resolved")
         => /\ delPc'[self] = "idle"
            /\ ~\E d \in pending' : d.by = self]_vars

\* C31: when a commitChanges cycle that committed a tree has moved the
\* branch and cleared the change set (no request of the cycle having
\* failed, no notification and no other writer having come in between),
\* every repository path of the change set it started with is on the
\* verifier branch as it is in the workspace: with the local content when
\* the file exists, absent when it was deleted.
C31_BranchMirrorsWorkspace ==
  [][\A self \in CcRuns :
       (/\ pc[self] = "updateRef" /\ pc'[self] = "update"
        /\ stored' = <<>>
        /\ failures' = 0 /\ extPushes = 0 /\ formats = 0
        /\ ~hist[self].notifiedDuring /\ ~hist[self].overlapped
        /\ \A s \in CcRuns \ {self} : pc[s] = "idle")
         => \A p \in hist[self].start \cap WorkspacePaths :
              IF local[p] = None
              THEN remote'[branch].tree[RepoFilePath(p)] = None
              ELSE /\ remote'[branch].tree[RepoFilePath(p)] # None
                   /\ Decode(remote'[branch].tree[RepoFilePath(p)])
                        = local[p]
    ]_vars

\* C32: commitDeletions runs, and deleteFile requests are sent or
\* unanswered, only for a cycle that collected no tree entry and at least
\* one deleted path; a cycle that collected a tree entry sends none.
C32_DeletionsOnlyWithoutBlobs ==
  \A self \in CcRuns :
    /\ (\/ delPc[self] # "idle" \/ hist[self].req.del > 0
        \/ \E d \in pending : d.by = self)
         => /\ Len(treeList[self]) = 0 /\ Len(deletedFilePaths[self]) > 0
            /\ hist[self].req.tree = 0
    /\ Len(treeList[self]) > 0
         => /\ hist[self].req.del = 0 /\ delPc[self] = "idle"
            /\ ~\E d \in pending : d.by = self

\* a deleteFile request was sent by a cycle that had collected a deleted
\* path and no tree entry
C32_Witness ==
  \E self \in CcRuns :
    /\ hist[self].req.del > 0 /\ Len(treeList[self]) = 0
    /\ Len(deletedFilePaths[self]) > 0 /\ result[self] = "resolved"

\* C33: while a cycle compares content or creates a blob it has not yet read
\* the head of the verifier branch: the head the tree is built on and the
\* commit is parented on is read after these requests, right before the
\* tree is created.
C33_HeadReadBeforeTree ==
  \A self \in Procs :
    pc[self] \in {"getContent", "createBlob"} => Latest(self) = NoCommit

\* the path the loop of a commitChanges run is about to visit, None past
\* the end
Visiting(self) ==
  IF pc[self] = "loop" /\ ccIdx[self] <= Len(List(self))
  THEN List(self)[ccIdx[self]] ELSE None

\* C34 as stated: the loop collects a path as a deletion only when the file
\* is absent in the workspace and absent on the verifier branch.
C34_DeletionOnlyWhenAbsentOnBranch ==
  [][\A self \in CcRuns :
       (deletedFilePaths'[self] # deletedFilePaths[self] /\ pc[self] = "loop")
         => /\ local[Visiting(self)] = None
            /\ Status(GetContent(remote[branch].tree,
                                 RepoFilePath(Visiting(self)))) = 404]_vars

\* C34: the loop collects the path it visits as a deletion exactly when the
\* path lies in the repository and its file is absent in the workspace,
\* whatever the verifier branch holds; for such a path it sends no request
\* and adds no tree entry.
C34_DeletionWhenAbsentLocally ==
  [][\A self \in CcRuns :
       (/\ Visiting(self) # None
        /\ <<ccIdx[self], pc[self]>>' # <<ccIdx[self], pc[self]>>) =>
         /\ (deletedFilePaths'[self] # deletedFilePaths[self])
              <=> (Includes(Visiting(self), repositoryPath)
                     /\ local[Visiting(self)] = None)
         /\ deletedFilePaths'[self] # deletedFilePaths[self]
              => /\ deletedFilePaths'[self]
                      = Append(deletedFilePaths[self],
                               RepoFilePath(Visiting(self)))
                 /\ treeList'[self] = treeList[self]
                 /\ hist'[self].req = hist[self].req
                 /\ pc'[self] = "loop"
    ]_vars

\* a file deleted in the workspace and present on the branch was collected
C34_Witness ==
  \E self \in CcRuns :
    /\ Len(deletedFilePaths[self]) > 0
    /\ local[repositoryPath \o <<"/">> \o deletedFilePaths[self][1]] = None
    /\ deletedFilePaths[self][1] \in RelPaths
    /\ remote[branch].tree[deletedFilePaths[self][1]] # None
    /\ pc[self] = "loop"

\* C35: setDiagnostics is called at most once for a job, and only by the
\* handler of a snapshot that reports a failed environment preparation or an
\* unsuccessful end of the analysis; after a job that ended successfully the
\* diagnostics are the empty set the command started with.
C35_DiagnosticsOncePerJob ==
  \A j \in Jobs :
    /\ jh[j].attached <= 1
    /\ jh[j].attached = 1 => server[j] \in {"ENV_FAILED", "FAILED"}
    /\ (load.jobs = 1 /\ server[j] = "SUCCEEDED") => diagnostics = None

\* C36: at most one interval timer is live, and a live timer is the one
\* intervalId holds.
C36_OneReferencedTimer ==
  /\ Cardinality(intervals) <= 1
  /\ \A i \in intervals : i.id = intervalId

\* C38: after a status poll of a job has failed, no poll is sent for that
\* job.
C38_NoPollAfterPollFailure ==
  \A j \in Jobs : ~jh[j].pollAfterPollFail

\* no command in progress, no poll timer live, no grace timeout pending
Quiescent == ~isExecuting /\ intervals = {} /\ timeouts = <<>>

\* C37: every behaviour in which requests are answered, timers fire and the
\* server reaches a terminal status ends up quiescent for good: no command
\* in progress, no timer or timeout left (a timer that is not held in
\* intervalId can never be cleared; a behaviour that has used up the polls
\* or timers explored is not required to have come to rest otherwise).
\* Stated for the behaviours without a stop command and without a failed
\* request.
C37_EventuallyQuiescent ==
  \/ <>(stops > 0 \/ pollFailures > 0)
  \/ <>[](/\ \A i \in intervals : i.id = intervalId
          /\ (polls < load.polls /\ timers < load.timers) => Quiescent)

\* C39: every '#' of the output stands on a line after a phase label: a line
\* without a phase label holds no marker, and no marker precedes a label.
C39_MarkersOnlyOnLabelledLines ==
  \A i \in 1..Len(channel) :
    /\ channel[i].stray = 0
    /\ ~IsPhaseLine(channel[i]) => channel[i].marks = 0

====
